---- MODULE Spec2Model ----
(***************************************************************************)
(* Model of the rapidtriage agent: the tool registry, the action tools,    *)
(* the rule based classifier and the EmergencyCoordinator.ProcessEmergency *)
(* state machine (classify, dispatch by triage code, summarize).           *)
(***************************************************************************)
EXTENDS Integers, Sequences, FiniteSets, TLC

(***************************************************************************)
(* Bounds of the model.                                                    *)
(***************************************************************************)
\* largest registry built by individual Register calls
MaxTools == 3

(***************************************************************************)
(* models/emergency.go: triage codes.                                      *)
(***************************************************************************)
CodeRed == "RED"
CodeYellow == "YELLOW"
CodeGreen == "GREEN"
CodeUnknown == "UNKNOWN"

TriageCodes == {CodeRed, CodeYellow, CodeGreen, CodeUnknown}

(***************************************************************************)
(* A float64 is modelled as a non-negative rational <<num, den>>.          *)
(***************************************************************************)
Geq(a, b) == a[1] * b[2] >= b[1] * a[2]

\* fmt "%.2f": the value in hundredths, rounded to nearest
Fmt2(a) == (a[1] * 200 + a[2]) \div (2 * a[2])

\* fmt "%.1f%%" of confidence*100: the value in tenths of a percent
Fmt1Pct(a) == (a[1] * 2000 + a[2]) \div (2 * a[2])

(***************************************************************************)
(* The action tools.  A tool value is the tag of its implementation.       *)
(*   hospital      tools/hospital/hospital_tool.go (retrying Execute)      *)
(*   hospital_p    the second hospital package (placeholder Execute)       *)
(*   ambulance     tools/ambulance/ambulance_tool.go (placeholder Execute) *)
(*   ambulance_r   the second ambulance package (retrying Execute)         *)
(*   booking       the booking package (placeholder Execute)               *)
(*   location      tools/location/location_tool.go                         *)
(***************************************************************************)
ToolKinds == {"location", "hospital", "hospital_p", "ambulance", "ambulance_r", "booking"}

Name(tool) ==
  CASE tool \in {"hospital", "hospital_p"} -> "Hospital Communication Tool"
    [] tool \in {"ambulance", "ambulance_r"} -> "Ambulance Dispatch Tool"
    [] tool = "booking" -> "Hospital Booking Tool"
    [] tool = "location" -> "Location Services Tool"

IsApplicableAmbulanceYellowOnly(tool, s) ==
  CASE tool = "hospital" -> TRUE
    [] tool = "hospital_p" -> s.Code = CodeRed \/ s.Code = CodeYellow
    [] tool = "ambulance" -> s.Code = CodeYellow /\ s.HasLocation
    [] tool = "ambulance_r" -> s.Code = CodeYellow
    [] tool = "booking" -> s.Code = CodeGreen
    [] tool = "location" -> s.HasLocation

IsApplicable(tool, s) ==
  CASE tool = "hospital" -> TRUE
    [] tool = "hospital_p" -> s.Code = CodeRed \/ s.Code = CodeYellow
    [] tool = "ambulance" -> s.Code = CodeRed /\ s.HasLocation
    [] tool = "ambulance_r" -> s.Code = CodeRed \/ s.Code = CodeYellow
    [] tool = "booking" -> s.Code = CodeGreen
    [] tool = "location" -> s.HasLocation

\* tools of the dispatch whose Execute runs the HTTP retry loop
Retrying(tool) == tool \in {"hospital", "ambulance_r"}

\* NewHospitalTool (and the other constructors): a RetryAttempts of 0 becomes 3
NewHospitalTool(retryAttempts) == IF retryAttempts = 0 THEN 3 ELSE retryAttempts

\* config.RetryAttempts of the tools setupComponents builds (RetryAttempts: 3)
RetryAttempts == NewHospitalTool(3)

(***************************************************************************)
(* DefaultToolRegistry.                                                    *)
(***************************************************************************)
RECURSIVE Filter(_, _)
Filter(list, s) ==
  IF list = << >> THEN << >>
  ELSE IF IsApplicable(Head(list), s)
       THEN << Head(list) >> \o Filter(Tail(list), s)
       ELSE Filter(Tail(list), s)

\* a registry that hands out every tool
GetApplicableUnfiltered(registry, s) == registry

GetApplicable(registry, s) == Filter(registry, s)

(***************************************************************************)
(* Coordinator helpers.                                                    *)
(***************************************************************************)
isHospitalTool(toolName) == toolName = "Hospital Communication Tool"

isAmbulanceTool(toolName) == toolName = "Ambulance Dispatch Tool"

isBookingToolOrHospital(toolName) ==
  toolName = "Hospital Booking Tool" \/ toolName = "Hospital Communication Tool"

isBookingTool(toolName) == toolName = "Hospital Booking Tool"

isHospitalOrAmbulanceOrLocation(toolName) ==
  isHospitalTool(toolName) \/ isAmbulanceTool(toolName)
    \/ toolName = "Location Services Tool"

isHospitalOrAmbulanceTool(toolName) == isHospitalTool(toolName) \/ isAmbulanceTool(toolName)

(***************************************************************************)
(* triage/rule_based_classifier.go.  A description is modelled by the set  *)
(* of keywords that occur in its lower-cased text.                         *)
(***************************************************************************)
redKeywords ==
  << "not breathing", "heart attack", "stroke", "unconscious", "severe bleeding",
     "choking", "drowning", "seizure", "anaphylaxis", "overdose" >>

yellowKeywords ==
  << "broken bone", "deep cut", "burn", "concussion", "severe pain",
     "high fever", "difficulty breathing", "chest pain", "allergic reaction" >>

greenKeywords ==
  << "minor cut", "sprain", "mild fever", "rash", "cold symptoms",
     "ear pain", "sore throat", "minor burn", "minor headache" >>

\* NewRuleBasedClassifier: a zero threshold becomes 0.5
DefaultThreshold == << 1, 2 >>

NewRuleBasedClassifier(cfg) ==
  [threshold |-> IF cfg.Threshold[1] = 0 THEN DefaultThreshold ELSE cfg.Threshold,
   fallbackCode |-> cfg.FallbackCode]

\* a fallback reported with no confidence at all
FallbackConfidenceZero == << 0, 1 >>

\* the confidence returned with the fallback code (0.3)
FallbackConfidence == << 3, 10 >>

calculateScore(text, keywords) ==
  LET matches == Cardinality({ i \in 1..Len(keywords) : keywords[i] \in text })
  IN  IF Len(keywords) = 0 THEN << 0, 1 >> ELSE << matches, Len(keywords) >>

\* a classifier that picks, among the tiers that clear the threshold, the one
\* with the highest score
ClassifyBestScore(c, s) ==
  LET score == [code \in {CodeRed, CodeYellow, CodeGreen} |->
                  calculateScore(s.Description,
                                 CASE code = CodeRed -> redKeywords
                                   [] code = CodeYellow -> yellowKeywords
                                   [] code = CodeGreen -> greenKeywords)]
      clear == { code \in DOMAIN score : Geq(score[code], c.threshold) }
      best == { code \in clear : \A other \in clear : Geq(score[code], score[other]) }
  IN  IF best = {}
      THEN IF c.fallbackCode # "" THEN [code |-> c.fallbackCode, confidence |-> << 3, 10 >>]
           ELSE [code |-> CodeUnknown, confidence |-> << 0, 1 >>]
      ELSE LET code == IF CodeRed \in best THEN CodeRed
                       ELSE IF CodeYellow \in best THEN CodeYellow ELSE CodeGreen
           IN  [code |-> code, confidence |-> score[code]]

\* a classifier that returns the configured fallback code as it is, empty or
\* not
ClassifyRawFallback(c, s) ==
  LET redScore == calculateScore(s.Description, redKeywords)
      yellowScore == calculateScore(s.Description, yellowKeywords)
      greenScore == calculateScore(s.Description, greenKeywords)
  IN  IF Geq(redScore, c.threshold) THEN [code |-> CodeRed, confidence |-> redScore]
      ELSE IF Geq(yellowScore, c.threshold) THEN [code |-> CodeYellow, confidence |-> yellowScore]
      ELSE IF Geq(greenScore, c.threshold) THEN [code |-> CodeGreen, confidence |-> greenScore]
      ELSE [code |-> c.fallbackCode, confidence |-> << 3, 10 >>]

Classify(c, s) ==
  LET redScore == calculateScore(s.Description, redKeywords)
      yellowScore == calculateScore(s.Description, yellowKeywords)
      greenScore == calculateScore(s.Description, greenKeywords)
  IN  IF Geq(redScore, c.threshold) THEN [code |-> CodeRed, confidence |-> redScore]
      ELSE IF Geq(yellowScore, c.threshold) THEN [code |-> CodeYellow, confidence |-> yellowScore]
      ELSE IF Geq(greenScore, c.threshold) THEN [code |-> CodeGreen, confidence |-> greenScore]
      ELSE IF c.fallbackCode # "" THEN [code |-> c.fallbackCode, confidence |-> FallbackConfidence]
      ELSE [code |-> CodeUnknown, confidence |-> << 0, 1 >>]

(***************************************************************************)
(* Summary generation (emergency_coordinator.go).                          *)
(***************************************************************************)
getPriorityText(code) ==
  CASE code = CodeRed -> "CRITICAL - IMMEDIATE RESPONSE REQUIRED"
    [] code = CodeYellow -> "URGENT - PROMPT RESPONSE REQUIRED"
    [] code = CodeGreen -> "NON-URGENT - STANDARD RESPONSE"
    [] OTHER -> "UNCLASSIFIED EMERGENCY"

\* DefaultSummaryGenerator.GenerateSummary: the fields the template prints
GenerateSummary(s) ==
  [ banner |-> getPriorityText(s.Code), code |-> s.Code, description |-> s.Description,
    location |-> s.HasLocation, confidencePct |-> Fmt1Pct(s.Confidence) ]

FallbackSummaryNoCode(s) ==
  [ text |-> "Emergency", description |-> s.Description, code |-> "",
    confidence |-> Fmt2(s.Confidence) ]

\* "Emergency: %s (Code %s). Confidence: %.2f"
FallbackSummary(s) ==
  [ text |-> "Emergency", description |-> s.Description, code |-> s.Code,
    confidence |-> Fmt2(s.Confidence) ]

(***************************************************************************)
(* Inputs of the model.                                                    *)
(***************************************************************************)
\* descriptions, each given by the keywords its text contains
Descriptions ==
  { {},
    {"not breathing", "heart attack", "stroke", "unconscious", "choking"},
    {"broken bone", "deep cut", "burn", "concussion", "chest pain"},
    {"minor cut", "sprain", "rash", "ear pain", "sore throat"} }

\* confidences reported by a processor for an already classified situation:
\* the "confidence" number of the model's JSON, stored as it is
Confidences == { << 0, 1 >>, << 1, 1 >>, << 3, 2 >> }

Ids == {"emergency-1"}

\* the situations the handler passes to ProcessEmergency: unclassified ones
\* with any description, and ones the processor has already classified (RED
\* with each confidence, YELLOW and GREEN with confidence 1.0)
Requests ==
  [ID : Ids, Description : Descriptions, Code : {CodeUnknown},
   Confidence : {<< 0, 1 >>}, HasLocation : BOOLEAN]
    \cup
  { r \in [ID : Ids,
            Description : {{"not breathing", "heart attack", "stroke", "unconscious", "choking"}},
            Code : {CodeRed, CodeYellow, CodeGreen}, Confidence : Confidences,
            HasLocation : BOOLEAN] :
      r.Code = CodeRed \/ r.Confidence = << 1, 1 >> }

\* fallback codes the classifier is configured with ("" = none)
FallbackCodes == { "", CodeYellow }

\* what client.Do returns: a transport error, or a response with a status
\* code and a body that does or does not parse into the expected shape
HTTPOutcomes ==
  { [err |-> TRUE, status |-> 0, bodyOk |-> FALSE] }
    \cup [err : {FALSE}, status : {200, 429}, bodyOk : BOOLEAN]

NilResp == [status |-> 0, bodyOk |-> FALSE]

NoSituation == [ID |-> "", Description |-> {}, Code |-> "", Confidence |-> << 0, 1 >>,
                HasLocation |-> FALSE]

NoResult == [kind |-> "none"]

NoCtx == [done |-> FALSE]

(***************************************************************************)
(* State.                                                                  *)
(***************************************************************************)
VARIABLES
  tools,            \* DefaultToolRegistry.tools
  config,           \* the ClassifierConfig the classifier was built from
  classifier,       \* RuleBasedClassifier: threshold, fallbackCode
  pc,               \* position of the ProcessEmergency call
  situation,        \* the EmergencySituation being processed
  incoming,         \* the situation as it was when ProcessEmergency was called
  ctx,              \* the call's context: Done() is closed
  applicableTools,  \* the list GetApplicable returned to the dispatch
  idx,              \* position of the dispatch loop in applicableTools
  attempt,          \* Execute: loop counter of the retry loop
  lastErr,          \* Execute: lastErr # nil
  resp,             \* Execute: the last response
  doCalls,          \* requests sent by the running Execute
  sleeps,           \* backoff sleeps (ms) of the running Execute
  outcomes,         \* status codes client.Do returned to the running Execute (0: error)
  toolResponses,    \* the list the dispatch appends to
  executed,         \* positions in applicableTools on which Execute was called
  failures,         \* those of them whose Execute returned an error
  classifyCalls,    \* outcomes of the calls of classifier.Classify in this request
  writes,           \* the SetTriageCode calls on the situation since its creation
  summaryCalls,     \* outcomes of the calls of summaryGenerator.GenerateSummary
  result,           \* what ProcessEmergency returned
  mu,               \* DefaultToolRegistry.mu: writer holds it, number of readers
  rpc,              \* per goroutine: its position in a registry call
  rop,              \* per goroutine: the registry call it is in
  rres,             \* per goroutine: the result its registry call is about to return
  lockOrder,        \* the tools of the Register calls, in the order they took mu
  regReturned,      \* number of Register calls that have returned
  calls,            \* the GetAll and GetApplicable calls that have returned
  cache,            \* LocationTool.cache: the facilities stored under each cache key
  lastUpdate,       \* LocationTool.lastUpdate
  now,              \* the clock that time.Now and time.Since read
  lpc,              \* per goroutine: its position in LocationTool.Execute
  lkey,             \* per goroutine: the cacheKey of its Execute call
  lhit,             \* per goroutine: what its read of t.cache[cacheKey] gave
  lfatal,           \* the runtime stopped the process on a concurrent map access
  lstarted,         \* number of Execute calls started
  lcalls,           \* what the Execute calls that have returned gave
  modelFactories,   \* package ai: the factory registered under each ModelType
  models,           \* Provider.models, the map the providers share
  providers,        \* the Providers made so far: defaultModel, and the model made at NewProvider
  lastCall,         \* the last call on the package ai and its processors, with what it returned
  clock,            \* the wall clock time.Now reads, in ticks of half a millisecond
  request           \* per handler goroutine: its situation and its ProcessEmergency call

\* the state of goroutines that call the registry concurrently
regVars == << mu, rpc, rop, rres, lockOrder, regReturned, calls >>

\* the state of goroutines that call LocationTool.Execute concurrently
locVars == << cache, lastUpdate, now, lpc, lkey, lhit, lfatal, lstarted, lcalls >>

\* the model factories, the providers and the last call on them
aiVars == << modelFactories, models, providers, lastCall >>

\* the requests that handler goroutines process side by side
handlerVars == << clock, request >>

\* the components the coordinator does not call, and the other requests
compVars == << locVars, aiVars, handlerVars >>

vars == << tools, classifier, config, compVars, regVars, pc, situation, incoming, ctx, applicableTools, idx, attempt,
           lastErr, resp, doCalls, sleeps, outcomes, toolResponses, executed, failures,
           classifyCalls, writes, summaryCalls, result >>

reqVars == << situation, incoming, ctx, applicableTools, idx, toolResponses, executed,
              failures, classifyCalls, writes, summaryCalls, result >>

execVars == << attempt, lastErr, resp, doCalls, sleeps, outcomes >>

\* goroutines that call the registry, and the calls they start in all
NumGoroutines == 2

MaxRegistryCalls == 5

Goroutines == 1..NumGoroutines

NoCall == [kind |-> "", tool |-> "", s |-> NoSituation, after |-> 0]

\* sync.RWMutex with no holder, and no goroutine in a registry call
RegistryIdle ==
  /\ mu = [writer |-> FALSE, readers |-> 0]
  /\ rpc = [p \in Goroutines |-> "idle"]
  /\ rop = [p \in Goroutines |-> NoCall]
  /\ rres = [p \in Goroutines |-> << >>]
  /\ lockOrder = << >>
  /\ regReturned = 0
  /\ calls = {}

\* cache keys, "%.4f:%.4f" of a latitude and a longitude
CacheKeys == { "k1", "k2" }

\* the facility lists the location service answers with; "absent" stands
\* for no entry under a key of the map and for no list
Facilities == { "f1", "f2" }

\* cacheTTL, 30 minutes, in units of 10 minutes
CacheTTL == 3

\* NewLocationTool: an empty map, lastUpdate = time.Now(), no call in flight
LocationIdle ==
  /\ cache = [k \in CacheKeys |-> "absent"]
  /\ lastUpdate = 0
  /\ now = 0
  /\ lpc = [p \in Goroutines |-> "idle"]
  /\ lkey = [p \in Goroutines |-> ""]
  /\ lhit = [p \in Goroutines |-> "absent"]
  /\ lfatal = FALSE
  /\ lstarted = 0
  /\ lcalls = {}

\* the model families
ModelTypes == { "gemini", "claude", "gpt4", "llama" }

\* a nil Model
NoModel == [type |-> "", factory |-> "", config |-> ""]

\* package ai before any init function ran: no factory, no provider, no call
ProviderIdle ==
  /\ modelFactories = [t \in ModelTypes |-> ""]
  /\ models = [t \in ModelTypes |-> NoModel]
  /\ providers = << >>
  /\ lastCall = [kind |-> ""]

\* everything but the classifier, as it is before the first request
\* the two handler goroutines of the concurrent requests
Handlers == { 1, 2 }

\* a handler that has no request
NoRequest == [pc |-> "idle"]

\* a handler at the start of ProcessEmergency with the situation s
NewRequest(s) ==
  [pc |-> "classify", situation |-> s, applicableTools |-> << >>, idx |-> 0,
   executed |-> << >>, failures |-> << >>, toolResponses |-> << >>, result |-> NoResult]

HandlersIdle ==
  /\ clock = 0
  /\ request = [h \in Handlers |-> NoRequest]

InitRequest ==
  /\ RegistryIdle
  /\ LocationIdle
  /\ ProviderIdle
  /\ HandlersIdle
  /\ tools = << >>
  /\ pc = "idle"
  /\ situation = NoSituation
  /\ incoming = NoSituation
  /\ ctx = NoCtx
  /\ applicableTools = << >>
  /\ idx = 0
  /\ attempt = 0
  /\ lastErr = FALSE
  /\ resp = NilResp
  /\ doCalls = 0
  /\ sleeps = << >>
  /\ outcomes = << >>
  /\ toolResponses = << >>
  /\ executed = << >>
  /\ failures = << >>
  /\ classifyCalls = << >>
  /\ writes = << >>
  /\ summaryCalls = << >>
  /\ result = NoResult

\* setupComponents: Threshold 0.5 and a fallback code
Init ==
  /\ config \in [Threshold : {<< 1, 2 >>}, FallbackCode : FallbackCodes]
  /\ classifier = NewRuleBasedClassifier(config)
  /\ InitRequest

(***************************************************************************)
(* Registry operations.                                                    *)
(***************************************************************************)
\* the tools registered one by one: those a dispatch can execute (the
\* location tool is registered by setupComponents)
DispatchTools == ToolKinds \ {"location"}

Register(tool) ==
  /\ pc = "idle"
  /\ Len(tools) < MaxTools
  /\ tools' = Append(tools, tool)
  /\ UNCHANGED << classifier, config, compVars, regVars, pc, reqVars, execVars >>

\* main.go setupComponents: location, hospital, ambulance, booking, in this
\* order, with either implementation of the hospital and ambulance packages
SetupComponents(hospitalTool, ambulanceTool) ==
  /\ pc = "idle"
  /\ tools = << >>
  /\ tools' = << "location", hospitalTool, ambulanceTool, "booking" >>
  /\ UNCHANGED << classifier, config, compVars, regVars, pc, reqVars, execVars >>

(***************************************************************************)
(* Execute of the action tools.                                            *)
(***************************************************************************)
ToolMessage(tool) ==
  CASE tool = "hospital" -> "Successfully communicated emergency to hospital"
    [] tool = "hospital_p" -> "Called Hospital Communication Tool"
    [] tool = "ambulance" -> "Called Ambulance Dispatch Tool"
    [] tool = "ambulance_r" -> "Successfully dispatched ambulance to the location"
    [] tool = "booking" -> "Called Hospital Booking Tool"
    [] tool = "location" -> "Found nearby medical facilities"

ToolResponse(tool) ==
  [ToolName |-> Name(tool), Success |-> TRUE, Message |-> ToolMessage(tool)]

\* Execute returns before building a request (Location == nil)
ReturnsEarly(tool, s) == tool = "ambulance_r" /\ ~s.HasLocation

\* Execute reaches the "send request with retries" loop
EntersRetryLoop(tool, s) == Retrying(tool) /\ ~ReturnsEarly(tool, s)

\* The status code client.Do handed back, 0 when it returned an error and
\* no response.
StatusOf(o) == IF o.err THEN 0 ELSE o.status

\* the retry loop would also break on a non-2xx response
SucceededAnyResponse(o) == ~o.err

\* the retry loop breaks: no error and a 2xx status
Succeeded(o) == ~o.err /\ o.status >= 200 /\ o.status < 300

\* a schedule counting the failed attempts from 1
BackoffFromOne(a) == (a + 1) * (a + 1) * 100

\* the sleep after failed attempt number a, in milliseconds
Backoff(a) == a * a * 100

\* the code after the retry loop: does Execute return an error
ExecuteFails(tool, s, lErr, r) ==
  CASE tool = "hospital" -> lErr \/ r.status < 200 \/ r.status >= 300 \/ ~r.bodyOk
    [] tool = "ambulance_r" -> ReturnsEarly(tool, s) \/ lErr \/ ~r.bodyOk
    [] OTHER -> FALSE

(***************************************************************************)
(* Dispatch policy of ProcessEmergency.                                    *)
(***************************************************************************)
NeedsClassificationAlways(s) == TRUE

\* "Classify the emergency if not already classified"
NeedsClassification(s) == s.Code = CodeUnknown

\* a setter that leaves the confidence as it was
SetTriageCodeOnly(s, code, confidence) == [s EXCEPT !.Code = code]

\* a setter that stores the code and the confidence in a situation of its own
SetTriageCodeFresh(s, code, confidence) ==
  [NoSituation EXCEPT !.Code = code, !.Confidence = confidence]

SetTriageCode(s, code, confidence) == [s EXCEPT !.Code = code, !.Confidence = confidence]

PolicyDefaultRed(code) ==
  CASE code = CodeYellow -> "processYellowEmergency"
    [] code = CodeGreen -> "processGreenEmergency"
    [] OTHER -> "processRedEmergency"

\* the switch on situation.Code ("" = the default case)
Policy(code) ==
  CASE code = CodeRed -> "processRedEmergency"
    [] code = CodeYellow -> "processYellowEmergency"
    [] code = CodeGreen -> "processGreenEmergency"
    [] OTHER -> ""

\* the name test in the loop of the processXxxEmergency function
Matches(policy, toolName) ==
  CASE policy = "processRedEmergency" -> isHospitalOrAmbulanceTool(toolName)
    [] policy = "processYellowEmergency" -> isHospitalTool(toolName)
    [] policy = "processGreenEmergency" -> isBookingTool(toolName)
    [] OTHER -> FALSE

ContinuesAfterSuccessOnly(policy, failed) == policy = "processRedEmergency" /\ ~failed

\* a dispatch that tries the next matching tool when one has failed
ContinuesAfterFailure(policy, failed) == policy = "processRedEmergency" \/ failed

ContinuesAlways(policy, failed) == TRUE

\* after an Execute the loop goes on (RED: continue) or ends (YELLOW and
\* GREEN: return err, or break)
ContinuesAfter(policy, failed) == policy = "processRedEmergency"

AppendsAlways(failed) == TRUE

\* the tool's response is appended to toolResponses
Appends(failed) == ~failed

(***************************************************************************)
(* EmergencyCoordinator.ProcessEmergency, step by step.                    *)
(***************************************************************************)
\* the handler calls ProcessEmergency(ctx, situation) with the situation its
\* processor built: NewEmergencySituation (UNKNOWN, 0.0), then SetTriageCode
\* with the code and the confidence of the model's answer
ProcessEmergency(id, description, code, confidence, hasLocation) ==
  /\ pc = "idle"
  /\ situation' = [ID |-> id, Description |-> description, Code |-> code,
                   Confidence |-> confidence, HasLocation |-> hasLocation]
  /\ incoming' = situation'
  /\ writes' = << [by |-> "processor", from |-> CodeUnknown, to |-> code,
                   confidence |-> confidence] >>
  /\ pc' = "classify"
  /\ UNCHANGED << tools, classifier, config, compVars, regVars, ctx, applicableTools, idx, toolResponses, executed,
                  failures, classifyCalls, summaryCalls, result, execVars >>

\* the context expires (30s bound) or the caller cancels it
CtxDone ==
  /\ pc \notin {"idle", "done"}
  /\ ~ctx.done
  /\ ctx' = [done |-> TRUE]
  /\ UNCHANGED << tools, classifier, config, compVars, regVars, pc, situation, incoming, applicableTools, idx,
                  toolResponses, executed, failures, classifyCalls, writes, summaryCalls, result,
                  execVars >>

SkipClassify ==
  /\ pc = "classify"
  /\ ~NeedsClassification(situation)
  /\ pc' = "dispatch"
  /\ UNCHANGED << tools, classifier, config, compVars, regVars, reqVars, execVars >>

ClassifyReturns ==
  /\ pc = "classify"
  /\ NeedsClassification(situation)
  /\ LET r == Classify(classifier, situation)
     IN  /\ situation' = SetTriageCode(situation, r.code, r.confidence)
         /\ writes' = Append(writes, [by |-> "classifier", from |-> situation.Code,
                                      to |-> r.code, confidence |-> r.confidence])
  /\ classifyCalls' = Append(classifyCalls, "ok")
  /\ pc' = "dispatch"
  /\ UNCHANGED << tools, classifier, config, compVars, regVars, incoming, ctx, applicableTools, idx, toolResponses,
                  executed, failures, summaryCalls, result, execVars >>

\* the Classifier interface may return an error
ClassifyFails ==
  /\ pc = "classify"
  /\ NeedsClassification(situation)
  /\ classifyCalls' = Append(classifyCalls, "err")
  /\ result' = [kind |-> "error", err |-> "failed to classify emergency"]
  /\ pc' = "done"
  /\ UNCHANGED << tools, classifier, config, compVars, regVars, situation, incoming, ctx, applicableTools, idx,
                  toolResponses, executed, failures, summaryCalls, writes, execVars >>

\* case CodeRed / CodeYellow / CodeGreen: processXxxEmergency calls GetApplicable
BeginDispatch ==
  /\ pc = "dispatch"
  /\ Policy(situation.Code) # ""
  /\ applicableTools' = GetApplicable(tools, situation)
  /\ idx' = 1
  /\ pc' = "loop"
  /\ UNCHANGED << tools, classifier, config, compVars, regVars, situation, incoming, ctx, toolResponses, executed,
                  failures, classifyCalls, writes, summaryCalls, result, execVars >>

\* a coordinator that goes back to the classification when the code selects
\* no policy
DispatchNothingReclassifies ==
  /\ pc = "dispatch"
  /\ Policy(situation.Code) = ""
  /\ pc' = "classify"
  /\ UNCHANGED << tools, classifier, config, compVars, regVars, reqVars, execVars >>

\* default: "Warning: unknown emergency code"
DispatchNothing ==
  /\ pc = "dispatch"
  /\ Policy(situation.Code) = ""
  /\ pc' = "summary"
  /\ UNCHANGED << tools, classifier, config, compVars, regVars, reqVars, execVars >>

\* for _, tool := range applicableTools: a tool whose name does not match
SkipTool ==
  /\ pc = "loop"
  /\ idx <= Len(applicableTools)
  /\ ~Matches(Policy(situation.Code), Name(applicableTools[idx]))
  /\ idx' = idx + 1
  /\ UNCHANGED << tools, classifier, config, compVars, regVars, pc, situation, incoming, ctx, applicableTools,
                  toolResponses, executed, failures, classifyCalls, writes, summaryCalls, result,
                  execVars >>

\* tool.Execute(ctx, situation) is called
BeginExecute ==
  /\ pc = "loop"
  /\ idx <= Len(applicableTools)
  /\ Matches(Policy(situation.Code), Name(applicableTools[idx]))
  /\ executed' = Append(executed, idx)
  /\ attempt' = 0
  /\ lastErr' = FALSE
  /\ resp' = NilResp
  /\ doCalls' = 0
  /\ sleeps' = << >>
  /\ outcomes' = << >>
  /\ pc' = IF EntersRetryLoop(applicableTools[idx], situation) THEN "attempt" ELSE "return"
  /\ UNCHANGED << tools, classifier, config, compVars, regVars, situation, incoming, ctx, applicableTools, idx,
                  toolResponses, failures, classifyCalls, writes, summaryCalls, result >>

\* resp, lastErr = t.client.Do(req), and the test that breaks the loop
Attempt(o) ==
  /\ pc = "attempt"
  /\ attempt < RetryAttempts
  /\ doCalls' = doCalls + 1
  /\ lastErr' = o.err
  /\ resp' = IF o.err THEN NilResp ELSE [status |-> o.status, bodyOk |-> o.bodyOk]
  /\ outcomes' = Append(outcomes, StatusOf(o))
  /\ pc' = IF Succeeded(o) THEN "return" ELSE "backoff"
  /\ UNCHANGED << tools, classifier, config, compVars, regVars, reqVars, attempt, sleeps >>

\* a backoff that does not count the attempt
SleepSameAttempt ==
  /\ pc = "backoff"
  /\ sleeps' = Append(sleeps, Backoff(attempt))
  /\ attempt' = attempt
  /\ pc' = "attempt"
  /\ UNCHANGED << tools, classifier, config, compVars, regVars, reqVars, lastErr, resp, doCalls, outcomes >>

\* time.Sleep(attempt*attempt*100ms); attempt++
Sleep ==
  /\ pc = "backoff"
  /\ sleeps' = Append(sleeps, Backoff(attempt))
  /\ attempt' = attempt + 1
  /\ pc' = "attempt"
  /\ UNCHANGED << tools, classifier, config, compVars, regVars, reqVars, lastErr, resp, doCalls, outcomes >>

\* attempt < RetryAttempts is false
RetriesExhausted ==
  /\ pc = "attempt"
  /\ attempt >= RetryAttempts
  /\ pc' = "return"
  /\ UNCHANGED << tools, classifier, config, compVars, regVars, reqVars, execVars >>

\* Execute returns (response or error) and the dispatch loop handles it
ExecuteReturns ==
  /\ pc = "return"
  /\ LET tool == applicableTools[idx]
         failed == ExecuteFails(tool, situation, lastErr, resp)
     IN  /\ toolResponses' = IF Appends(failed)
                              THEN Append(toolResponses, ToolResponse(tool))
                              ELSE toolResponses
         /\ failures' = IF failed THEN Append(failures, idx) ELSE failures
         /\ IF ContinuesAfter(Policy(situation.Code), failed)
            THEN idx' = idx + 1 /\ pc' = "loop"
            ELSE idx' = idx /\ pc' = "summary"
  /\ attempt' = 0
  /\ lastErr' = FALSE
  /\ resp' = NilResp
  /\ doCalls' = 0
  /\ sleeps' = << >>
  /\ outcomes' = << >>
  /\ UNCHANGED << tools, classifier, config, compVars, regVars, situation, incoming, ctx, applicableTools, executed,
                  classifyCalls, writes, summaryCalls, result >>

\* the range loop is over
EndDispatch ==
  /\ pc = "loop"
  /\ idx > Len(applicableTools)
  /\ pc' = "summary"
  /\ UNCHANGED << tools, classifier, config, compVars, regVars, reqVars, execVars >>

\* GenerateSummary (which the interface allows to fail), the fallback
\* summary, and the EmergencyResponse returned with a nil error
Summarize(summaryFails) ==
  /\ pc = "summary"
  /\ summaryCalls' = Append(summaryCalls, IF summaryFails THEN "err" ELSE "ok")
  /\ result' = [kind |-> "response",
                EmergencyID |-> situation.ID,
                Code |-> situation.Code,
                Summary |-> IF summaryFails THEN FallbackSummary(situation)
                                            ELSE GenerateSummary(situation),
                ToolResponses |-> toolResponses]
  /\ pc' = "done"
  /\ UNCHANGED << tools, classifier, config, compVars, regVars, situation, incoming, ctx, applicableTools, idx,
                  toolResponses, executed, failures, classifyCalls, writes, execVars >>

\* the handler has written the result; the next request may come
Finish ==
  /\ pc = "done"
  /\ pc' = "idle"
  /\ situation' = NoSituation
  /\ incoming' = NoSituation
  /\ ctx' = NoCtx
  /\ applicableTools' = << >>
  /\ idx' = 0
  /\ toolResponses' = << >>
  /\ executed' = << >>
  /\ failures' = << >>
  /\ classifyCalls' = << >>
  /\ writes' = << >>
  /\ summaryCalls' = << >>
  /\ result' = NoResult
  /\ UNCHANGED << tools, classifier, config, compVars, regVars, execVars >>

Next ==
  \/ \E tool \in DispatchTools : Register(tool)
  \/ \E h \in {"hospital", "hospital_p"}, a \in {"ambulance", "ambulance_r"} :
       SetupComponents(h, a)
  \/ \E r \in Requests :
       ProcessEmergency(r.ID, r.Description, r.Code, r.Confidence, r.HasLocation)
  \/ CtxDone
  \/ SkipClassify
  \/ ClassifyReturns
  \/ ClassifyFails
  \/ BeginDispatch
  \/ DispatchNothing
  \/ SkipTool
  \/ BeginExecute
  \/ \E o \in HTTPOutcomes : Attempt(o)
  \/ Sleep
  \/ RetriesExhausted
  \/ ExecuteReturns
  \/ EndDispatch
  \/ \E f \in BOOLEAN : Summarize(f)
  \/ Finish

Spec == Init /\ [][Next]_vars

(***************************************************************************)
(* Properties.                                                             *)
(***************************************************************************)
HospitalName == "Hospital Communication Tool"
AmbulanceName == "Ambulance Dispatch Tool"
BookingName == "Hospital Booking Tool"

\* the call is past the classification step
Dispatching == pc \in {"loop", "attempt", "backoff", "return", "summary", "done"}

\* the dispatch loop of the call is over
Dispatched == pc \in {"summary", "done"}

\* the name of the k-th tool on which Execute was called
ExecutedName(k) == Name(applicableTools[executed[k]])

\* the registry entries GetApplicable has to return, in registration order
ApplicableEntries == SelectSeq(tools, LAMBDA t : IsApplicable(t, situation))

\* positions in the applicable list of the tools with the given names
Named(names) == { i \in 1..Len(applicableTools) : Name(applicableTools[i]) \in names }

Least(S) == CHOOSE i \in S : \A j \in S : i <= j

\* C1: in a RED dispatch Execute is called exactly once on every applicable
\* tool named hospital or ambulance, and on no tool of another name.
C1_RedDispatch ==
  (Dispatching /\ situation.Code = CodeRed) =>
    /\ applicableTools = ApplicableEntries
    /\ \A k \in 1..Len(executed) : ExecutedName(k) \in {HospitalName, AmbulanceName}
    /\ \A j, k \in 1..Len(executed) : j # k => executed[j] # executed[k]
    /\ Dispatched =>
         \A i \in Named({HospitalName, AmbulanceName}) :
           \E k \in 1..Len(executed) : executed[k] = i

C1_Witness ==
  /\ pc = "done"
  /\ situation.Code = CodeRed
  /\ Len(applicableTools) = 3
  /\ applicableTools[1] = "location"
  /\ executed = << 2, 3 >>

\* C2: in a RED dispatch a tool whose Execute fails does not stop the later
\* matching tools, contributes no entry to ToolResponses, and the call still
\* returns a response; hospital failing and ambulance succeeding leaves
\* exactly one entry, the ambulance one.
C2_FailureIsolation ==
  (pc = "done" /\ situation.Code = CodeRed) =>
    LET kept == SelectSeq(executed, LAMBDA i : \A k \in 1..Len(failures) : failures[k] # i)
    IN  /\ result.kind = "response"
        /\ \A i \in Named({HospitalName, AmbulanceName}) :
             \E k \in 1..Len(executed) : executed[k] = i
        /\ Len(result.ToolResponses) = Len(kept)
        /\ \A k \in 1..Len(kept) :
             result.ToolResponses[k].ToolName = Name(applicableTools[kept[k]])
        /\ ( /\ Len(executed) = 2
             /\ ExecutedName(1) = HospitalName
             /\ ExecutedName(2) = AmbulanceName
             /\ failures = << executed[1] >> )
           => /\ Len(result.ToolResponses) = 1
              /\ result.ToolResponses[1].ToolName = AmbulanceName

C2_Witness ==
  /\ pc = "done"
  /\ situation.Code = CodeRed
  /\ Len(executed) = 2
  /\ ExecutedName(1) = HospitalName
  /\ ExecutedName(2) = AmbulanceName
  /\ failures = << executed[1] >>
  /\ result.kind = "response"
  /\ Len(result.ToolResponses) = 1

\* C3: in a YELLOW dispatch Execute is called on at most one tool, the first
\* applicable tool named hospital, and on no ambulance, booking or location
\* tool, however many hospital tools are registered.
C3_YellowDispatch ==
  (Dispatching /\ situation.Code = CodeYellow) =>
    /\ applicableTools = ApplicableEntries
    /\ Len(executed) <= 1
    /\ executed # << >> =>
         /\ ExecutedName(1) = HospitalName
         /\ executed[1] = Least(Named({HospitalName}))
    /\ (Dispatched /\ Named({HospitalName}) # {}) => Len(executed) = 1

C3_Witness ==
  /\ pc = "done"
  /\ situation.Code = CodeYellow
  /\ Cardinality(Named({HospitalName})) >= 2
  /\ Named({AmbulanceName}) # {}
  /\ Len(executed) = 1

\* C4: in a GREEN dispatch Execute is called on at most one tool, the first
\* applicable tool named booking, even with two booking tools registered,
\* and on no hospital or ambulance tool.
C4_GreenDispatch ==
  (Dispatching /\ situation.Code = CodeGreen) =>
    /\ applicableTools = ApplicableEntries
    /\ Len(executed) <= 1
    /\ executed # << >> =>
         /\ ExecutedName(1) = BookingName
         /\ executed[1] = Least(Named({BookingName}))
    /\ (Dispatched /\ Named({BookingName}) # {}) => Len(executed) = 1

C4_Witness ==
  /\ pc = "done"
  /\ situation.Code = CodeGreen
  /\ Cardinality(Named({BookingName})) = 2
  /\ Named({HospitalName}) = {1}
  /\ executed = << 2 >>

\* C5: when the code after a successful classification step is none of RED,
\* YELLOW, GREEN, no Execute is called, ToolResponses is empty and the call
\* returns a response with a summary.
C5_OtherCodeDispatchesNothing ==
  ( /\ pc \in {"dispatch"} \cup {"loop", "attempt", "backoff", "return", "summary", "done"}
    /\ situation.Code \notin {CodeRed, CodeYellow, CodeGreen}
    /\ classifyCalls # << "err" >> ) =>
    /\ pc \in {"dispatch", "summary", "done"}
    /\ executed = << >>
    /\ toolResponses = << >>
    /\ doCalls = 0
    /\ pc = "done" =>
         /\ result.kind = "response"
         /\ result.Code = situation.Code
         /\ result.ToolResponses = << >>
         /\ Len(summaryCalls) = 1
         /\ result.Summary \in {GenerateSummary(situation), FallbackSummary(situation)}

C5_Witness ==
  /\ pc = "done"
  /\ classifier.fallbackCode = ""
  /\ classifyCalls = << "ok" >>
  /\ situation.Code = CodeUnknown
  /\ \E i \in 1..Len(tools) : tools[i] = "hospital"
  /\ result.kind = "response"

\* the registry setupComponents builds
StartupRegistry ==
  /\ Len(tools) = 4
  /\ tools[1] = "location"
  /\ Name(tools[2]) = HospitalName
  /\ Name(tools[3]) = AmbulanceName
  /\ tools[4] = "booking"

\* C6: with the startup registry, a RED situation with a location gets the
\* hospital tool and the ambulance tool executed and never the booking tool.
C6_ScenarioA ==
  (StartupRegistry /\ Dispatching /\ situation.Code = CodeRed /\ situation.HasLocation) =>
    /\ \A k \in 1..Len(executed) : ExecutedName(k) # BookingName
    /\ Dispatched =>
         /\ \E k \in 1..Len(executed) : applicableTools[executed[k]] = tools[2]
         /\ \E k \in 1..Len(executed) : applicableTools[executed[k]] = tools[3]

C6_Witness ==
  /\ StartupRegistry
  /\ pc = "done"
  /\ situation.Code = CodeRed
  /\ situation.HasLocation
  /\ tools[3] = "ambulance"
  /\ Len(executed) = 2
  /\ result.kind = "response"

\* C7: the classifier is called exactly once when the incoming code is
\* UNKNOWN and never otherwise; when it fails the call returns an error, no
\* tool is executed and the summary generator is not called.
C7_Classification ==
  /\ Len(classifyCalls) <= 1
  /\ pc = "classify" => classifyCalls = << >>
  /\ pc \notin {"idle", "classify"} =>
       (Len(classifyCalls) = 1 <=> incoming.Code = CodeUnknown)
  /\ classifyCalls = << "err" >> =>
       /\ pc = "done"
       /\ result.kind = "error"
       /\ executed = << >>
       /\ toolResponses = << >>
       /\ doCalls = 0
       /\ summaryCalls = << >>

C7_Witness ==
  /\ pc = "done"
  /\ incoming.Code = CodeUnknown
  /\ classifyCalls = << "err" >>
  /\ result.kind = "error"
  /\ \E i \in 1..Len(tools) : tools[i] = "hospital"

\* C8: when the summary generator fails the call still returns a response,
\* whose Summary is the fallback text made of the Description, the Code and
\* the Confidence to two decimals, whatever the code and the tool outcomes.
C8_SummaryNeverFatal ==
  (pc = "done" /\ summaryCalls = << "err" >>) =>
    /\ result.kind = "response"
    /\ DOMAIN result.Summary = {"text", "description", "code", "confidence"}
    /\ result.Summary.text = "Emergency"
    /\ result.Summary.description = situation.Description
    /\ result.Summary.code = situation.Code
    /\ LET c == result.Summary.confidence
           num == situation.Confidence[1]
           den == situation.Confidence[2]
       IN  /\ 2 * (100 * num - c * den) <= den
           /\ 2 * (c * den - 100 * num) <= den

C8_Witness ==
  /\ pc = "done"
  /\ summaryCalls = << "err" >>
  /\ situation.Code = CodeRed
  /\ failures # << >>
  /\ result.kind = "response"
  /\ result.Summary = FallbackSummary(situation)

\* C9: when the context is done while the call is classifying, dispatching
\* or summarizing, the call returns a deadline error, not a response (stated
\* for the calls whose classifier did not fail for a reason of its own).
C9_DeadlineSurfaced ==
  (pc = "done" /\ ctx.done /\ classifyCalls # << "err" >>) =>
    /\ result.kind = "error"
    /\ result.err = "context deadline exceeded"

\* C10: once the context is done during a retry series (a request has been
\* sent), the tool sends no further request and sleeps no further backoff.
C10_NoRetryAfterCancel ==
  [][ (ctx.done /\ pc \in {"attempt", "backoff"} /\ doCalls >= 1) =>
        (doCalls' <= doCalls /\ Len(sleeps') <= Len(sleeps)) ]_vars

(***************************************************************************)
(* The retry series of a retrying tool's Execute.                          *)
(***************************************************************************)
Is2xx(status) == status >= 200 /\ status < 300

\* the attempts (counted from 1) of the running series that got a 2xx status
Got2xx == { i \in 1..Len(outcomes) : Is2xx(outcomes[i]) }

\* the retry loop of a retrying tool is over and Execute is about to return
SeriesOver ==
  pc = "return" /\ EntersRetryLoop(applicableTools[idx], situation)

\* C11: a retrying tool sends the request at most RetryAttempts (3) times and
\* stops at the first 2xx response: when the series is over the number of
\* requests sent is the position of the first (and only) 2xx outcome, or 3
\* when no outcome is 2xx; a hospital notification that got 429 then 200
\* with a parseable body made exactly 2 attempts and, when it returns, hands
\* back a ToolResponse with Success = TRUE.
C11_RetryCount ==
  /\ [](/\ doCalls = Len(outcomes)
        /\ doCalls <= 3
        /\ pc \in {"attempt", "backoff"} => Got2xx = {}
        /\ SeriesOver =>
             IF Got2xx = {} THEN doCalls = 3 ELSE Got2xx = {doCalls})
  /\ [][ (/\ SeriesOver
          /\ applicableTools[idx] = "hospital"
          /\ outcomes = << 429, 200 >>
          /\ resp.bodyOk
          /\ pc' # "return") =>
            /\ doCalls = 2
            /\ failures' = failures
            /\ Len(toolResponses') = Len(toolResponses) + 1
            /\ toolResponses'[Len(toolResponses')].ToolName = "Hospital Communication Tool"
            /\ toolResponses'[Len(toolResponses')].Success = TRUE ]_vars

C11_Witness ==
  /\ SeriesOver
  /\ applicableTools[idx] = "hospital"
  /\ outcomes = << 429, 200 >>
  /\ resp.bodyOk
  /\ doCalls = 2

\* C12: when none of the 3 attempts got a 2xx response, Execute returns an
\* error and no ToolResponse: the dispatch loop records a failure and
\* appends nothing.
C12_ExhaustionIsError ==
  [][ (SeriesOver /\ Got2xx = {} /\ pc' # "return") =>
        /\ toolResponses' = toolResponses
        /\ failures' = Append(failures, idx) ]_vars

\* C13: the i-th sleep of a series lasts (i-1)*(i-1)*100 ms, and sleeps
\* happen only between attempts: a series that is over has slept fewer
\* times than it sent requests.
C13_BackoffSchedule ==
  /\ \A i \in 1..Len(sleeps) : sleeps[i] = (i - 1) * (i - 1) * 100
  /\ SeriesOver => Len(sleeps) <= doCalls - 1

\* C14 as stated: in Scenario D (429 then 200) the sleep between the first
\* and the second attempt is 100 ms.
C14_ScenarioD100ms ==
  (SeriesOver /\ outcomes = << 429, 200 >>) => sleeps = << 100 >>

\* C14: in Scenario D (3 attempts configured, 429 then 200) the only sleep
\* of the series, the one between the first and the second attempt, lasts
\* 0 ms (attempt * attempt * 100 with attempt = 0).
C14_ScenarioDNoDelay ==
  (SeriesOver /\ outcomes = << 429, 200 >>) => sleeps = << 0 >>

C14_Witness ==
  /\ SeriesOver
  /\ outcomes = << 429, 200 >>
  /\ sleeps = << 0 >>
  /\ RetryAttempts = 3

(***************************************************************************)
(* The classifier on its own: a coordinator with an empty registry, whose  *)
(* classifier is built from any of the configurations below and is given   *)
(* unclassified situations with the descriptions below.                    *)
(***************************************************************************)
\* Threshold values of a ClassifierConfig (0 is the zero value of the field)
Thresholds ==
  { << 0, 1 >>, << 1, 10 >>, << 3, 10 >>, << 1, 2 >>, << 2, 3 >>, << 1, 1 >>, << 3, 2 >> }

ClassifierConfigs ==
  [Threshold : Thresholds, FallbackCode : {"", CodeYellow, CodeRed}]

\* the first n keywords of a tier
Prefix(keywords, n) == { keywords[i] : i \in 1..n }

\* descriptions that contain the first r red, y yellow and g green keywords;
\* a text that contains "minor burn" contains "burn"
ClassifierDescriptions ==
  { d \in { Prefix(redKeywords, r) \cup Prefix(yellowKeywords, y) \cup Prefix(greenKeywords, g) :
              r \in {0, 1, 3, 5, 10}, y \in {0, 3, 5, 9}, g \in {0, 5, 9} } :
      "minor burn" \in d => "burn" \in d }

InitClassifier ==
  /\ config \in ClassifierConfigs
  /\ classifier = NewRuleBasedClassifier(config)
  /\ InitRequest

NextClassifier ==
  \/ \E d \in ClassifierDescriptions :
       ProcessEmergency("emergency-1", d, CodeUnknown, << 0, 1 >>, FALSE)
  \/ ClassifyReturns
  \/ BeginDispatch
  \/ DispatchNothing
  \/ EndDispatch
  \/ \E f \in BOOLEAN : Summarize(f)
  \/ Finish

SpecClassifier == InitClassifier /\ [][NextClassifier]_vars

\* keywords of a tier that the description of the request contains
Matched(keywords) ==
  Cardinality({ k \in incoming.Description : \E i \in 1..Len(keywords) : keywords[i] = k })

\* matched / Len(keywords) >= t, for a threshold t = << num, den >>
Clears(keywords, t) == Matched(keywords) * t[2] >= t[1] * Len(keywords)

\* Classify has just returned to ProcessEmergency
Classified == pc = "dispatch" /\ classifyCalls = << "ok" >>

\* C15 as stated: with t the configured threshold, Classify returns RED
\* whenever redScore >= t, else YELLOW whenever yellowScore >= t, else GREEN
\* whenever greenScore >= t.
C15_ConfiguredThreshold ==
  Classified =>
    LET t == config.Threshold
    IN  /\ Clears(redKeywords, t) => situation.Code = CodeRed
        /\ (~Clears(redKeywords, t) /\ Clears(yellowKeywords, t)) =>
             situation.Code = CodeYellow
        /\ (~Clears(redKeywords, t) /\ ~Clears(yellowKeywords, t) /\ Clears(greenKeywords, t)) =>
             situation.Code = CodeGreen

\* C15: with t the threshold the classifier holds (the configured one, 0.5
\* when 0 was configured), Classify returns the first of RED, YELLOW, GREEN
\* whose score (matched keywords / tier keyword count) is >= t, with that
\* score as confidence, whatever the scores of the later tiers.
C15_ClassifierPriority ==
  Classified =>
    LET t == classifier.threshold
    IN  /\ t = (IF config.Threshold = << 0, 1 >> THEN << 1, 2 >> ELSE config.Threshold)
        /\ Clears(redKeywords, t) =>
             /\ situation.Code = CodeRed
             /\ situation.Confidence = << Matched(redKeywords), 10 >>
        /\ (~Clears(redKeywords, t) /\ Clears(yellowKeywords, t)) =>
             /\ situation.Code = CodeYellow
             /\ situation.Confidence = << Matched(yellowKeywords), 9 >>
        /\ (~Clears(redKeywords, t) /\ ~Clears(yellowKeywords, t) /\ Clears(greenKeywords, t)) =>
             /\ situation.Code = CodeGreen
             /\ situation.Confidence = << Matched(greenKeywords), 9 >>

\* t = 0.5, 5 of 10 red keywords and 5 of 9 yellow keywords: (RED, 0.5)
C15_Witness ==
  /\ Classified
  /\ classifier.threshold = << 1, 2 >>
  /\ Matched(redKeywords) = 5
  /\ Matched(yellowKeywords) = 5
  /\ situation.Code = CodeRed
  /\ situation.Confidence = << 5, 10 >>

\* C16: when no tier's score reaches the threshold, Classify returns the
\* fallback code with confidence 0.3 if one is configured (YELLOW, 0.3 for
\* YELLOW), and UNKNOWN with confidence 0.0 if none is.
C16_ClassifierFallback ==
  (/\ Classified
   /\ ~Clears(redKeywords, classifier.threshold)
   /\ ~Clears(yellowKeywords, classifier.threshold)
   /\ ~Clears(greenKeywords, classifier.threshold)) =>
     /\ config.FallbackCode = "" =>
          (situation.Code = CodeUnknown /\ situation.Confidence = << 0, 1 >>)
     /\ config.FallbackCode # "" =>
          (situation.Code = config.FallbackCode /\ situation.Confidence = << 3, 10 >>)
     /\ config.FallbackCode = CodeYellow =>
          (situation.Code = CodeYellow /\ situation.Confidence = << 3, 10 >>)

C16_Witness ==
  /\ Classified
  /\ config.FallbackCode = CodeYellow
  /\ Matched(yellowKeywords) = 3
  /\ ~Clears(yellowKeywords, classifier.threshold)
  /\ ~Clears(redKeywords, classifier.threshold)
  /\ ~Clears(greenKeywords, classifier.threshold)
  /\ situation.Code = CodeYellow
  /\ situation.Confidence = << 3, 10 >>

(***************************************************************************)
(* The TriageCode and Confidence of the situation of a request.            *)
(***************************************************************************)
\* C17: while a request is processed (the processor has built the
\* situation; the classifier may have set it) Situation.Confidence lies in
\* [0,1], bounds included.
C17_ConfidenceRange ==
  pc # "idle" =>
    /\ situation.Confidence[1] >= 0
    /\ situation.Confidence[1] <= situation.Confidence[2]

ConcreteCodes == {CodeRed, CodeYellow, CodeGreen}

\* ProcessEmergency is past its classification step and did not fail in it
PastClassification == pc \notin {"idle", "classify"} /\ classifyCalls # << "err" >>

\* C18 as stated: TriageCode and Confidence are written exactly once after
\* creation, by the classifier, and that write takes UNKNOWN to RED, YELLOW
\* or GREEN.
C18_WrittenOnceByClassifier ==
  /\ \A i \in 1..Len(writes) :
       /\ writes[i].by = "classifier"
       /\ writes[i].from = CodeUnknown
       /\ writes[i].to \in ConcreteCodes
  /\ PastClassification => Len(writes) = 1

\* C18: the processor writes TriageCode and Confidence once, right after
\* creation; the classifier writes them at most once more, exactly when the
\* processor left the code UNKNOWN, and its write sets RED, YELLOW, GREEN or
\* the fallback code, or UNKNOWN again when no fallback is configured; the
\* situation holds what the last write set, and no step of the dispatch or
\* of the summary changes the situation.
C18_ClassificationWrites ==
  /\ [](pc # "idle" =>
          /\ Len(writes) \in {1, 2}
          /\ writes[1].by = "processor"
          /\ writes[1].to = incoming.Code
          /\ Len(writes) = 2 =>
               /\ writes[2].by = "classifier"
               /\ writes[2].from = CodeUnknown
               /\ incoming.Code = CodeUnknown
               /\ writes[2].to \in ConcreteCodes \cup {config.FallbackCode, CodeUnknown}
               /\ writes[2].to = CodeUnknown => config.FallbackCode = ""
          /\ PastClassification => (Len(writes) = 2 <=> incoming.Code = CodeUnknown)
          /\ situation.Code = writes[Len(writes)].to
          /\ situation.Confidence = writes[Len(writes)].confidence)
  /\ [][ pc \notin {"idle", "classify", "done"} =>
           (situation' = situation /\ writes' = writes) ]_vars

\* the classifier wrote, and wrote UNKNOWN over UNKNOWN; the summary is next
C18_Witness ==
  /\ pc = "summary"
  /\ Len(writes) = 2
  /\ writes[2].by = "classifier"
  /\ writes[2].from = CodeUnknown
  /\ writes[2].to = CodeUnknown

(***************************************************************************)
(* DefaultToolRegistry under concurrent callers: goroutines call Register, *)
(* GetAll and GetApplicable on one registry, each call taking r.mu as the  *)
(* code does.  The append of Register is two steps, so that a list with a  *)
(* slot not yet filled exists while the writer holds the lock.             *)
(***************************************************************************)
\* the slot of an element that append has not stored yet
NilTool == "nil"

RegistryTools == {"hospital_p", "booking"}

RegistrySituations ==
  [ID : Ids, Description : {{}}, Code : {CodeRed}, Confidence : {<< 1, 1 >>},
   HasLocation : {FALSE}]

RegistryCalls ==
  [kind : {"Register"}, tool : RegistryTools, s : {NoSituation}, after : {0}]
    \cup [kind : {"GetAll"}, tool : {""}, s : {NoSituation}, after : {0}]
    \cup [kind : {"GetApplicable"}, tool : {""}, s : RegistrySituations, after : {0}]

\* calls started so far
Started ==
  Len(lockOrder) + Cardinality(calls)
    + Cardinality({ p \in Goroutines : rpc[p] \in {"lock", "rlock", "read", "runlock"} })

\* mu.Lock() can proceed: no writer and no reader holds mu
CanLock(m) == ~m.writer /\ m.readers = 0

\* a read lock that does not wait for the writer
CanRLockAlways(m) == TRUE

\* mu.RLock() can proceed: no writer holds mu
CanRLock(m) == ~m.writer

\* a goroutine calls Register, GetAll or GetApplicable
Call(p, op) ==
  /\ rpc[p] = "idle"
  /\ Started < MaxRegistryCalls
  /\ rop' = [rop EXCEPT ![p] = [op EXCEPT !.after = regReturned]]
  /\ rpc' = [rpc EXCEPT ![p] = IF op.kind = "Register" THEN "lock" ELSE "rlock"]
  /\ UNCHANGED << tools, classifier, config, compVars, pc, reqVars, execVars, mu, rres, lockOrder,
                  regReturned, calls >>

\* Register: r.mu.Lock()
Lock(p) ==
  /\ rpc[p] = "lock"
  /\ CanLock(mu)
  /\ mu' = [mu EXCEPT !.writer = TRUE]
  /\ lockOrder' = Append(lockOrder, rop[p].tool)
  /\ rpc' = [rpc EXCEPT ![p] = "append"]
  /\ UNCHANGED << tools, classifier, config, compVars, pc, reqVars, execVars, rop, rres, regReturned,
                  calls >>

\* Register: append grows the list by one slot
AppendGrow(p) ==
  /\ rpc[p] = "append"
  /\ tools' = Append(tools, NilTool)
  /\ rpc' = [rpc EXCEPT ![p] = "store"]
  /\ UNCHANGED << classifier, config, compVars, pc, reqVars, execVars, mu, rop, rres, lockOrder,
                  regReturned, calls >>

\* Register: append stores the tool in the new slot
AppendStore(p) ==
  /\ rpc[p] = "store"
  /\ tools' = [tools EXCEPT ![Len(tools)] = rop[p].tool]
  /\ rpc' = [rpc EXCEPT ![p] = "unlock"]
  /\ UNCHANGED << classifier, config, compVars, pc, reqVars, execVars, mu, rop, rres, lockOrder,
                  regReturned, calls >>

\* Register: the deferred r.mu.Unlock(), and return nil
Unlock(p) ==
  /\ rpc[p] = "unlock"
  /\ mu' = [mu EXCEPT !.writer = FALSE]
  /\ regReturned' = regReturned + 1
  /\ rpc' = [rpc EXCEPT ![p] = "idle"]
  /\ rop' = [rop EXCEPT ![p] = NoCall]
  /\ UNCHANGED << tools, classifier, config, compVars, pc, reqVars, execVars, rres, lockOrder, calls >>

\* GetAll, GetApplicable: r.mu.RLock()
RLock(p) ==
  /\ rpc[p] = "rlock"
  /\ CanRLock(mu)
  /\ mu' = [mu EXCEPT !.readers = @ + 1]
  /\ rpc' = [rpc EXCEPT ![p] = "read"]
  /\ UNCHANGED << tools, classifier, config, compVars, pc, reqVars, execVars, rop, rres, lockOrder,
                  regReturned, calls >>

\* what GetApplicable's loop yields: IsApplicable cannot be called on a slot
\* that holds no tool yet
ReadApplicable(list, s) ==
  IF \E i \in 1..Len(list) : list[i] = NilTool
  THEN << NilTool >>
  ELSE GetApplicable(list, s)

\* GetAll: make and copy; GetApplicable: the filter loop
Read(p) ==
  /\ rpc[p] = "read"
  /\ rres' = [rres EXCEPT ![p] = IF rop[p].kind = "GetAll" THEN tools
                                  ELSE ReadApplicable(tools, rop[p].s)]
  /\ rpc' = [rpc EXCEPT ![p] = "runlock"]
  /\ UNCHANGED << tools, classifier, config, compVars, pc, reqVars, execVars, mu, rop, lockOrder,
                  regReturned, calls >>

\* GetAll, GetApplicable: the deferred r.mu.RUnlock(), and return
RUnlock(p) ==
  /\ rpc[p] = "runlock"
  /\ mu' = [mu EXCEPT !.readers = @ - 1]
  /\ calls' = calls \cup
       { [kind |-> rop[p].kind, s |-> rop[p].s, after |-> rop[p].after,
          n |-> Len(tools), result |-> rres[p]] }
  /\ rpc' = [rpc EXCEPT ![p] = "idle"]
  /\ rop' = [rop EXCEPT ![p] = NoCall]
  /\ rres' = [rres EXCEPT ![p] = << >>]
  /\ UNCHANGED << tools, classifier, config, compVars, pc, reqVars, execVars, lockOrder, regReturned >>

NextRegistry ==
  \E p \in Goroutines :
    \/ \E op \in RegistryCalls : Call(p, op)
    \/ Lock(p)
    \/ AppendGrow(p)
    \/ AppendStore(p)
    \/ Unlock(p)
    \/ RLock(p)
    \/ Read(p)
    \/ RUnlock(p)

\* setupComponents' classifier, an empty registry, no request and no call
InitRegistry ==
  /\ config = [Threshold |-> << 1, 2 >>, FallbackCode |-> CodeYellow]
  /\ classifier = NewRuleBasedClassifier(config)
  /\ InitRequest

SpecRegistry == InitRegistry /\ [][NextRegistry]_vars

\* the goroutine is inside the critical section of Register / of a reader
InRegister(p) == rpc[p] \in {"append", "store", "unlock"}

InReader(p) == rpc[p] \in {"read", "runlock"}

\* the GetApplicable calls that have returned or are about to return
ApplicableCalls ==
  { c \in calls : c.kind = "GetApplicable" }
    \cup { [kind |-> rop[p].kind, s |-> rop[p].s, after |-> rop[p].after, n |-> Len(tools),
            result |-> rres[p]] :
              p \in { q \in Goroutines : rpc[q] = "runlock" /\ rop[q].kind = "GetApplicable" } }

\* the entries of list at the positions in 1..n whose tool is applicable
Subsequence(list, n, s) ==
  LET keep == { i \in 1..n : IsApplicable(list[i], s) }
      RECURSIVE upTo(_)
      upTo(i) == IF i = 0 THEN << >>
                 ELSE IF i \in keep THEN Append(upTo(i - 1), list[i]) ELSE upTo(i - 1)
  IN  upTo(n)

\* C19: GetApplicable returns exactly the registered tools, in registration
\* order and with duplicates kept, whose IsApplicable(situation) is true; two
\* calls with the same situation and the same registry (no Register took
\* the lock in between) return lists of equal length and equal order; and
\* the call changes neither the registry nor its situation argument.
C19_GetApplicable ==
  /\ [](/\ \A c \in ApplicableCalls :
             /\ c.n <= Len(lockOrder)
             /\ c.result = Subsequence(lockOrder, c.n, c.s)
             /\ Len(c.result) =
                  Cardinality({ i \in 1..c.n : IsApplicable(lockOrder[i], c.s) })
        /\ \A c, d \in ApplicableCalls :
             (c.s = d.s /\ c.n = d.n) =>
               /\ Len(c.result) = Len(d.result)
               /\ \A i \in 1..Len(c.result) : c.result[i] = d.result[i])
  /\ [][ \A p \in Goroutines :
           (rop[p].kind = "GetApplicable" /\ InReader(p)) =>
             /\ tools' = tools
             /\ rpc'[p] = "idle" =>
                  \E c \in calls' : c.s = rop[p].s /\ c.n = Len(tools) /\ c.result = rres[p]
             /\ rpc'[p] # "idle" => rop'[p].s = rop[p].s ]_vars

\* two calls with the same situation on the registry << hospital_p,
\* hospital_p, booking >>, one returned and one about to: both have the two
\* hospital entries
C19_Witness ==
  /\ lockOrder = << "hospital_p", "hospital_p", "booking" >>
  /\ \E c \in calls, p \in Goroutines :
       /\ c.kind = "GetApplicable"
       /\ c.n = 3
       /\ c.result = << "hospital_p", "hospital_p" >>
       /\ rpc[p] = "runlock"
       /\ rop[p].kind = "GetApplicable"
       /\ rop[p].s = c.s
       /\ rop[p].after = 3
       /\ rres[p] = c.result

\* C20: a Register in its critical section excludes every other registry
\* call from theirs (readers may share); no registration is lost: when no
\* Register is inside, the list is the tools in the order the Registers took
\* the lock, as many as Registers have returned; a GetAll returns the first
\* tools of that order, at least as many as Registers had returned when it
\* was called; and no reader sees a slot that is not filled.
C20_RegistryLocking ==
  /\ \A p \in Goroutines :
       InRegister(p) =>
         \A q \in Goroutines \ {p} : ~InRegister(q) /\ ~InReader(q)
  /\ (\A p \in Goroutines : ~InRegister(p)) =>
       /\ tools = lockOrder
       /\ Len(tools) = regReturned
  /\ \A c \in calls :
       /\ \A i \in 1..Len(c.result) : c.result[i] # "nil"
       /\ c.kind = "GetAll" =>
            /\ Len(c.result) >= c.after
            /\ Len(c.result) <= Len(lockOrder)
            /\ \A i \in 1..Len(c.result) : c.result[i] = lockOrder[i]
  /\ \A p \in Goroutines :
       rpc[p] = "runlock" => \A i \in 1..Len(rres[p]) : rres[p][i] # "nil"

\* two readers inside together, after two Registers returned and a GetAll
\* called after them returned both tools
C20_Witness ==
  /\ \A p \in Goroutines : InReader(p)
  /\ regReturned = 2
  /\ \E c \in calls : c.kind = "GetAll" /\ c.after = 2 /\ Len(c.result) = 2

(***************************************************************************)
(* LocationTool.Execute called from several goroutines.  The struct has no *)
(* mutex: the map and the timestamp are read and written as they come.    *)
(***************************************************************************)

\* the Execute calls started in all, and the span of the clock
MaxLocationCalls == 3

MaxNow == 4

\* the coordinator's own state
coordVars == << tools, classifier, config, pc, reqVars, execVars, handlerVars >>

\* a goroutine is in the middle of reading, or of writing, the map or the
\* timestamp
Reading(p) == lpc[p] \in { "cacheRead", "tsRead" }

Writing(p) == lpc[p] \in { "cacheWrite", "tsWrite" }

\* Execute: with no Location (k = "") an error and nothing touched; else the
\* cache key is formatted and the lookup t.cache[cacheKey] starts
LocationExecute(p, k) ==
  /\ ~lfatal
  /\ lpc[p] = "idle"
  /\ lstarted < MaxLocationCalls
  /\ lstarted' = lstarted + 1
  /\ IF k = ""
       THEN /\ lcalls' = lcalls \cup { [key |-> "", facilities |-> "absent",
                                        cached |-> FALSE, err |-> TRUE, at |-> now] }
            /\ UNCHANGED << lkey, lpc >>
       ELSE /\ lkey' = [lkey EXCEPT ![p] = k]
            /\ lpc' = [lpc EXCEPT ![p] = "cacheRead"]
            /\ lcalls' = lcalls
  /\ UNCHANGED << cache, lastUpdate, now, lhit, lfatal >>
  /\ UNCHANGED << coordVars, regVars, aiVars >>

\* facilities, ok := t.cache[cacheKey]; with ok the timestamp is read next.
\* The read gives the entry, or with a write of the map in flight anything
\* the map holds or is being given
CacheRead(p) ==
  /\ ~lfatal
  /\ lpc[p] = "cacheRead"
  /\ LET writers == { q \in Goroutines \ {p} : lpc[q] = "cacheWrite" }
         reads == IF writers # {}
                    THEN { "absent" } \cup { cache[k] : k \in CacheKeys }
                           \cup { lhit[q] : q \in writers }
                    ELSE { cache[lkey[p]] }
     IN  \E f \in reads :
           /\ lhit' = [lhit EXCEPT ![p] = f]
           /\ lpc' = [lpc EXCEPT ![p] = IF f # "absent" THEN "tsRead" ELSE "request"]
  /\ UNCHANGED << cache, lastUpdate, now, lkey, lfatal, lstarted, lcalls >>
  /\ UNCHANGED << coordVars, regVars, aiVars >>

\* a test that still takes the cache when exactly cacheTTL has passed
FreshInclusive(t, n) == n - t <= CacheTTL

\* time.Since(t.lastUpdate) < t.cacheTTL
Fresh(t, n) == n - t < CacheTTL

\* time.Since(t.lastUpdate) < t.cacheTTL: the cached list is returned.  The
\* read gives the field, or with a write of it in flight any mix of the old
\* and the new words
LastUpdateRead(p) ==
  /\ ~lfatal
  /\ lpc[p] = "tsRead"
  /\ LET reads == IF \E q \in Goroutines \ {p} : lpc[q] = "tsWrite"
                    THEN 0..now ELSE { lastUpdate }
     IN  \E t \in reads :
           IF Fresh(t, now)
             THEN /\ lpc' = [lpc EXCEPT ![p] = "idle"]
                  /\ lcalls' = lcalls \cup { [key |-> lkey[p], facilities |-> lhit[p],
                                              cached |-> TRUE, err |-> FALSE, at |-> now] }
             ELSE /\ lpc' = [lpc EXCEPT ![p] = "request"]
                  /\ lcalls' = lcalls
  /\ UNCHANGED << cache, lastUpdate, now, lkey, lhit, lfatal, lstarted >>
  /\ UNCHANGED << coordVars, regVars, aiVars >>

\* the request is sent; it fails (f = "absent"), or the list is parsed and
\* sorted and the write t.cache[cacheKey] = facilities starts
LocationRequest(p, f) ==
  /\ ~lfatal
  /\ lpc[p] = "request"
  /\ IF f = "absent"
       THEN /\ lpc' = [lpc EXCEPT ![p] = "idle"]
            /\ lcalls' = lcalls \cup { [key |-> lkey[p], facilities |-> "absent",
                                        cached |-> FALSE, err |-> TRUE, at |-> now] }
            /\ lhit' = lhit
       ELSE /\ lhit' = [lhit EXCEPT ![p] = f]
            /\ lpc' = [lpc EXCEPT ![p] = "cacheWrite"]
            /\ lcalls' = lcalls
  /\ UNCHANGED << cache, lastUpdate, now, lkey, lfatal, lstarted >>
  /\ UNCHANGED << coordVars, regVars, aiVars >>

\* t.cache[cacheKey] = facilities is done; the write of t.lastUpdate starts
CacheWrite(p) ==
  /\ ~lfatal
  /\ lpc[p] = "cacheWrite"
  /\ cache' = [cache EXCEPT ![lkey[p]] = lhit[p]]
  /\ lpc' = [lpc EXCEPT ![p] = "tsWrite"]
  /\ UNCHANGED << lastUpdate, now, lkey, lhit, lfatal, lstarted, lcalls >>
  /\ UNCHANGED << coordVars, regVars, aiVars >>

\* t.lastUpdate = time.Now() is done, and createResponse returns the list
LastUpdateWrite(p) ==
  /\ ~lfatal
  /\ lpc[p] = "tsWrite"
  /\ lastUpdate' = now
  /\ lpc' = [lpc EXCEPT ![p] = "idle"]
  /\ lcalls' = lcalls \cup { [key |-> lkey[p], facilities |-> lhit[p],
                              cached |-> FALSE, err |-> FALSE, at |-> now] }
  /\ UNCHANGED << cache, now, lkey, lhit, lfatal, lstarted >>
  /\ UNCHANGED << coordVars, regVars, aiVars >>

\* the runtime may detect a map access that runs into a map write and stop
\* the process
ConcurrentMapAccess(p) ==
  /\ ~lfatal
  /\ lpc[p] \in { "cacheRead", "cacheWrite" }
  /\ \E q \in Goroutines \ {p} : lpc[q] = "cacheWrite"
  /\ lfatal' = TRUE
  /\ UNCHANGED << cache, lastUpdate, now, lpc, lkey, lhit, lstarted, lcalls >>
  /\ UNCHANGED << coordVars, regVars, aiVars >>

\* ten minutes pass
Tick ==
  /\ now < MaxNow
  /\ now' = now + 1
  /\ UNCHANGED << cache, lastUpdate, lpc, lkey, lhit, lfatal, lstarted, lcalls >>
  /\ UNCHANGED << coordVars, regVars, aiVars >>

NextLocation ==
  \/ \E p \in Goroutines : \E k \in CacheKeys \cup { "" } : LocationExecute(p, k)
  \/ \E p \in Goroutines : CacheRead(p)
  \/ \E p \in Goroutines : LastUpdateRead(p)
  \/ \E p \in Goroutines : \E f \in Facilities \cup { "absent" } : LocationRequest(p, f)
  \/ \E p \in Goroutines : CacheWrite(p)
  \/ \E p \in Goroutines : LastUpdateWrite(p)
  \/ \E p \in Goroutines : ConcurrentMapAccess(p)
  \/ Tick

SpecLocation == Init /\ [][NextLocation]_vars

\* C21: with two Execute calls in flight, a goroutine that is writing the
\* cache or the timestamp has no other goroutine reading or writing them at
\* the same time, and the process is never stopped on a concurrent map access.
C21_CacheLocking ==
  /\ \A p \in Goroutines :
       Writing(p) => \A q \in Goroutines \ {p} : ~Reading(q) /\ ~Writing(q)
  /\ ~lfatal

(***************************************************************************)
(* Package ai: the registry of model factories and the Provider.           *)
(***************************************************************************)

\* the Providers made in all
MaxProviders == 2

\* the types, factories and configurations the calls are made with; no init
\* function registers a factory for "llama"
ProviderInputs ==
  [type : { "gemini", "claude", "llama" },
   factory : { "NewGeminiModel", "NewClaudeModel" },
   config : { "c1", "c2" }]

\* GetModel: the model the registered factory makes of the configuration,
\* nil with ErrUnsupportedModel when no factory is registered
GetModel(factories, t, cfg) ==
  IF factories[t] = ""
    THEN NoModel
    ELSE [type |-> t, factory |-> factories[t], config |-> cfg]

\* Provider.Model
ModelOrNil(p, ms, t) == ms[t]

Model(p, ms, t) ==
  IF ms[t] # NoModel THEN ms[t] ELSE p.defaultModel

\* RegisterModel: modelFactories[modelType] = factory
RegisterModel(t, f) ==
  /\ t # "llama"
  /\ modelFactories' = [modelFactories EXCEPT ![t] = f]
  /\ lastCall' = [kind |-> "RegisterModel", type |-> t, factory |-> f, err |-> FALSE]
  /\ UNCHANGED << models, providers >>
  /\ UNCHANGED << coordVars, regVars, locVars >>

\* NewProvider: the default model is made and stored under its type
NewProvider(t, cfg) ==
  /\ providers = << >>
  /\ LET m == GetModel(modelFactories, t, cfg)
     IN  IF m = NoModel
           THEN /\ lastCall' = [kind |-> "NewProvider", type |-> t, config |-> cfg, err |-> TRUE]
                /\ UNCHANGED << models, providers >>
           ELSE /\ providers' = << [defaultModel |-> m, created |-> m] >>
                /\ models' = [models EXCEPT ![t] = m]
                /\ lastCall' = [kind |-> "NewProvider", type |-> t, config |-> cfg, err |-> FALSE]
  /\ UNCHANGED modelFactories
  /\ UNCHANGED << coordVars, regVars, locVars >>

\* Provider.AddModel: an error when the type is already in the map, or when
\* GetModel fails; else the new model is stored
AddModel(t, cfg) ==
  /\ providers # << >>
  /\ LET m == GetModel(modelFactories, t, cfg)
     IN  IF models[t] # NoModel \/ m = NoModel
           THEN /\ lastCall' = [kind |-> "AddModel", type |-> t, config |-> cfg, err |-> TRUE]
                /\ models' = models
           ELSE /\ models' = [models EXCEPT ![t] = m]
                /\ lastCall' = [kind |-> "AddModel", type |-> t, config |-> cfg, err |-> FALSE]
  /\ UNCHANGED << modelFactories, providers >>
  /\ UNCHANGED << coordVars, regVars, locVars >>

\* Provider.WithDefaultModel: a new Provider over the same map
WithDefaultModel(i, t) ==
  /\ i \in 1..Len(providers)
  /\ Len(providers) < MaxProviders
  /\ IF models[t] # NoModel
       THEN /\ providers' = Append(providers, [defaultModel |-> models[t], created |-> models[t]])
            /\ lastCall' = [kind |-> "WithDefaultModel", type |-> t, err |-> FALSE]
       ELSE /\ providers' = providers
            /\ lastCall' = [kind |-> "WithDefaultModel", type |-> t, err |-> TRUE]
  /\ UNCHANGED << modelFactories, models >>
  /\ UNCHANGED << coordVars, regVars, locVars >>

\* a call of Provider.Model, and one of Provider.DefaultModel
ModelCall(i, t) ==
  /\ i \in 1..Len(providers)
  /\ lastCall' = [kind |-> "Model", provider |-> i, type |-> t,
                  result |-> Model(providers[i], models, t)]
  /\ UNCHANGED << modelFactories, models, providers >>
  /\ UNCHANGED << coordVars, regVars, locVars >>

DefaultModelCall(i) ==
  /\ i \in 1..Len(providers)
  /\ lastCall' = [kind |-> "DefaultModel", provider |-> i,
                  result |-> providers[i].defaultModel]
  /\ UNCHANGED << modelFactories, models, providers >>
  /\ UNCHANGED << coordVars, regVars, locVars >>

NextProvider ==
  \/ \E x \in ProviderInputs : RegisterModel(x.type, x.factory)
  \/ \E x \in ProviderInputs : NewProvider(x.type, x.config)
  \/ \E x \in ProviderInputs : AddModel(x.type, x.config)
  \/ \E i \in 1..MaxProviders : \E x \in ProviderInputs : WithDefaultModel(i, x.type)
  \/ \E i \in 1..MaxProviders : \E x \in ProviderInputs : ModelCall(i, x.type)
  \/ \E i \in 1..MaxProviders : DefaultModelCall(i)

SpecProvider == Init /\ [][NextProvider]_vars

\* C22: Model(type) returns the model stored under the type when there is
\* one and the provider's default model otherwise, never nil; DefaultModel()
\* returns the model the provider was made with.
C22_ModelFallback ==
  /\ lastCall.kind = "Model" =>
       /\ lastCall.result # NoModel
       /\ lastCall.result =
            IF models[lastCall.type] # NoModel
              THEN models[lastCall.type]
              ELSE providers[lastCall.provider].created
  /\ lastCall.kind = "DefaultModel" =>
       lastCall.result = providers[lastCall.provider].created

\* Model("llama") on a provider that holds two models gave the default one
C22_Witness ==
  /\ lastCall.kind = "Model"
  /\ lastCall.type = "llama"
  /\ lastCall.result.type = "claude"
  /\ models["gemini"] # NoModel
  /\ Len(providers) = 2

\* C23: registering under a tag that is already registered succeeds and the
\* latest registration is the one in use: RegisterModel leaves the factory
\* just given, and an AddModel of a type that has a factory returns no error
\* and leaves the model made of the configuration just given.
C23_ReRegistrationOverwrites ==
  /\ lastCall.kind = "RegisterModel" =>
       modelFactories[lastCall.type] = lastCall.factory
  /\ (lastCall.kind = "AddModel" /\ modelFactories[lastCall.type] # "") =>
       /\ ~lastCall.err
       /\ models[lastCall.type] = GetModel(modelFactories, lastCall.type, lastCall.config)

(***************************************************************************)
(* JSON mode of the models.  A text is the sequence of its characters,     *)
(* with BT for the backtick.                                               *)
(***************************************************************************)

\* the characters strings.TrimSpace cuts and JSON skips
Space == { " ", "\n" }

\* strings.TrimSpace
TrimSpace(t) ==
  LET ink == { i \in 1..Len(t) : t[i] \notin Space }
  IN  IF ink = {}
        THEN << >>
        ELSE SubSeq(t, CHOOSE i \in ink : \A j \in ink : i <= j,
                       CHOOSE i \in ink : \A j \in ink : j <= i)

\* strings.HasPrefix and strings.HasSuffix
HasPrefix(t, prefix) ==
  Len(prefix) <= Len(t) /\ SubSeq(t, 1, Len(prefix)) = prefix

HasSuffix(t, suffix) ==
  Len(suffix) <= Len(t) /\ SubSeq(t, Len(t) - Len(suffix) + 1, Len(t)) = suffix

\* what a goroutine is left with when a slice expression is out of range
Panic == << "panic" >>

\* extractJSONFromText: the text trimmed; between BT BT BT json and BT BT BT or
\* between BT BT BT and BT BT BT the inside text[7 : len-3] or text[3 : len-3] trimmed, a slice
\* that panics when its low bound is above its high bound
extractJSONFromTextUntrimmed(raw) ==
  LET text == TrimSpace(raw)
      fence == << "BT", "BT", "BT" >>
      n == Len(text)
  IN  IF HasPrefix(text, fence \o << "j", "s", "o", "n" >>) /\ HasSuffix(text, fence)
        THEN IF 7 > n - 3 THEN Panic ELSE SubSeq(text, 8, n - 3)
        ELSE IF HasPrefix(text, fence) /\ HasSuffix(text, fence)
               THEN IF 3 > n - 3 THEN Panic ELSE SubSeq(text, 4, n - 3)
               ELSE text

extractJSONFromText(raw) ==
  LET text == TrimSpace(raw)
      fence == << "BT", "BT", "BT" >>
      n == Len(text)
  IN  IF HasPrefix(text, fence \o << "j", "s", "o", "n" >>) /\ HasSuffix(text, fence)
        THEN IF 7 > n - 3 THEN Panic ELSE TrimSpace(SubSeq(text, 8, n - 3))
        ELSE IF HasPrefix(text, fence) /\ HasSuffix(text, fence)
               THEN IF 3 > n - 3 THEN Panic ELSE TrimSpace(SubSeq(text, 4, n - 3))
               ELSE text

\* the index after the longest run of characters of S that starts at i
After(t, i, S) ==
  CHOOSE j \in i..(Len(t) + 1) :
    /\ \A k \in i..(j - 1) : t[k] \in S
    /\ j = Len(t) + 1 \/ t[j] \notin S

RECURSIVE Value(_, _), Items(_, _, _, _)

\* encoding/json: the index after the JSON value that starts at i, 0 when
\* there is none (numbers are runs of the digit 1, strings have no escapes)
Value(t, i) ==
  IF i = 0 \/ i > Len(t) THEN 0
  ELSE IF t[i] = "1" THEN After(t, i, { "1" })
  ELSE IF t[i] = "\""
         THEN LET j == After(t, i + 1, { "a", "x", "j", "s", "o", "n", " ", "BT", "{", "}",
                                         "[", "]", ":", ",", "1" })
              IN  IF j <= Len(t) /\ t[j] = "\"" THEN j + 1 ELSE 0
  ELSE IF t[i] = "{" THEN Items(t, After(t, i + 1, Space), "}", TRUE)
  ELSE IF t[i] = "[" THEN Items(t, After(t, i + 1, Space), "]", TRUE)
  ELSE 0

\* the members of an object or the elements of an array, up to the bracket
Items(t, i, close, first) ==
  IF i > Len(t) THEN 0
  ELSE IF first /\ t[i] = close THEN i + 1
  ELSE LET key == IF close = "}" /\ t[i] = "\"" THEN After(t, Value(t, i), Space) ELSE 0
           v == IF close = "]" THEN Value(t, i)
                ELSE IF key # 0 /\ key <= Len(t) /\ t[key] = ":"
                       THEN Value(t, After(t, key + 1, Space))
                       ELSE 0
           k == IF v = 0 THEN 0 ELSE After(t, v, Space)
       IN  IF k = 0 \/ k > Len(t) THEN 0
           ELSE IF t[k] = close THEN k + 1
           ELSE IF t[k] = "," THEN Items(t, After(t, k + 1, Space), close, FALSE)
           ELSE 0

\* json.Unmarshal(text, &jsonObj) returns no error
ValidJSON(t) ==
  LET j == Value(t, After(t, 1, Space))
  IN  j # 0 /\ After(t, j, Space) = Len(t) + 1

\* what a model writes: an opening fence or none, a body, a closing fence or
\* none, with white space around each
TextParts ==
  [lead : { << >>, << "\n" >> },
   open : { << >>, << "BT", "BT", "BT" >>, << "BT", "BT", "BT", "j", "s", "o", "n" >> },
   in : { << >>, << "\n" >>, << " " >> },
   body : { << "{", "\"", "a", "\"", ":", "1", "}" >>, << "[", "1", ",", " ", "1", "]" >>,
            << "1" >>, << "{", "\"", "a", "\"", ":", "1" >>, << "[", "1", ",", "]" >>,
            << "x" >>, << >> },
   out : { << >>, << "\n" >> },
   close : { << >>, << "BT", "BT", "BT" >> },
   trail : { << >>, << "\n" >> }]

Join(x) == x.lead \o x.open \o x.in \o x.body \o x.out \o x.close \o x.trail

\* ProcessTextWithJson of the Gemini, Claude and OpenAI models on what the
\* vendor's endpoint does with the one request: a transport error, a status
\* other than 200, a reply with no text, or a text; the text of the reply (OpenAI: the arguments of the
\* function call, taken as they are) must parse as JSON
ProcessTextWithJson(m, outcome, raw) ==
  LET jsonStr == IF m = "gpt4" THEN raw ELSE extractJSONFromText(raw)
      fails(e) == [resp |-> [Content |-> << >>, Format |-> ""], err |-> e, requests |-> 1]
  IN  IF outcome # "text" THEN fails(outcome)
      ELSE IF jsonStr = Panic THEN fails("panic")
      ELSE IF ~ValidJSON(jsonStr) THEN fails("ErrInvalidJSONSchema")
      ELSE [resp |-> [Content |-> jsonStr, Format |-> "json"], err |-> "", requests |-> 1]

\* a call of extractJSONFromText, and one of ProcessTextWithJson, each the
\* first call made
ExtractCall(x) ==
  /\ lastCall.kind = ""
  /\ lastCall' = [kind |-> "extractJSONFromText", parts |-> x, text |-> Join(x),
                  result |-> extractJSONFromText(Join(x))]
  /\ UNCHANGED << modelFactories, models, providers >>
  /\ UNCHANGED << coordVars, regVars, locVars >>

JSONCall(m, outcome, x) ==
  /\ lastCall.kind = ""
  /\ outcome # "text" => Join(x) = << >>
  /\ lastCall' = [kind |-> "ProcessTextWithJson", model |-> m, outcome |-> outcome,
                  text |-> Join(x), result |-> ProcessTextWithJson(m, outcome, Join(x))]
  /\ UNCHANGED << modelFactories, models, providers >>
  /\ UNCHANGED << coordVars, regVars, locVars >>

\* the triage_code strings a model writes into its structured reply
TriageStrings ==
  { "RED", "YELLOW", "GREEN", "red", "Yellow", " GREEN", "RED ", "UNKNOWN", "ORANGE", "" }

\* the switch on structuredInfo.TriageCode of both processors
TriageCodeOfFolded(s) ==
  IF s \in { "RED", "red", "RED " } THEN CodeRed
  ELSE IF s \in { "YELLOW", "Yellow" } THEN CodeYellow
  ELSE IF s \in { "GREEN", " GREEN" } THEN CodeGreen
  ELSE CodeUnknown

TriageCodeOf(s) ==
  CASE s = "RED" -> CodeRed
    [] s = "YELLOW" -> CodeYellow
    [] s = "GREEN" -> CodeGreen
    [] OTHER -> CodeUnknown

\* what a model call of a processor gives: an error, or a response with its
\* Format and with Content that unmarshals into the structured info or not
Replies ==
  [err : { TRUE }, Format : { "" }, parses : { FALSE }, triage_code : { "" }]
    \cup [err : { FALSE }, Format : { "text" }, parses : { FALSE }, triage_code : { "" }]
    \cup [err : { FALSE }, Format : { "json" }, parses : { FALSE }, triage_code : { "" }]
    \cup [err : { FALSE }, Format : { "json" }, parses : { TRUE }, triage_code : TriageStrings]

\* ProcessEmergencyText and ProcessEmergencyAudio: the first call of the
\* default model; a reply that is not JSON goes through extractStructuredInfo,
\* one ProcessTextWithJson call; the structured info gives the Situation
ProcessEmergencyInputAlwaysSecond(kind, first, second) ==
  LET call == IF kind = "ProcessEmergencyAudio" THEN "ProcessAudio" ELSE "ProcessText"
      fails(made) == [calls |-> made, err |-> TRUE, situation |-> NoSituation.Code]
      done(made, info) ==
        IF info.err \/ ~info.parses
          THEN fails(made)
          ELSE [calls |-> made, err |-> FALSE, situation |-> TriageCodeOf(info.triage_code)]
  IN  IF first.err THEN fails(<< call >>)
      ELSE done(<< call, "ProcessTextWithJson" >>, second)

ProcessEmergencyInput(kind, first, second) ==
  LET call == IF kind = "ProcessEmergencyAudio" THEN "ProcessAudio" ELSE "ProcessText"
      fails(made) == [calls |-> made, err |-> TRUE, situation |-> NoSituation.Code]
      done(made, info) ==
        IF info.err \/ ~info.parses
          THEN fails(made)
          ELSE [calls |-> made, err |-> FALSE, situation |-> TriageCodeOf(info.triage_code)]
  IN  IF first.err THEN fails(<< call >>)
      ELSE IF first.Format = "json" THEN done(<< call >>, first)
      ELSE done(<< call, "ProcessTextWithJson" >>, second)

\* a call of ProcessEmergencyText or ProcessEmergencyAudio
ProcessorCall(kind, first, second) ==
  /\ lastCall.kind = ""
  /\ second.Format # "text"
  /\ lastCall' = [kind |-> kind, first |-> first, second |-> second,
                  result |-> ProcessEmergencyInput(kind, first, second)]
  /\ UNCHANGED << modelFactories, models, providers >>
  /\ UNCHANGED << coordVars, regVars, locVars >>

\* the model names of the three families a deployment may configure
ModelNames ==
  [gemini |-> { "gemini-1.5-pro", "gemini-pro" },
   claude |-> { "claude-3-opus-20240229", "claude-2.1" },
   gpt4 |-> { "gpt-4o", "gpt-3.5-turbo" }]

\* SupportedRequestTypes: Gemini by "1.5" or "2.5" in the name, Claude by the
\* prefix "claude-3", OpenAI by "gpt-4" in the name
SupportedRequestTypes(m, name) ==
  CASE m = "gemini" /\ name = "gemini-1.5-pro" -> { "text", "audio", "image", "multimodal" }
    [] m = "claude" /\ name = "claude-3-opus-20240229" -> { "text", "image", "multimodal" }
    [] m = "gpt4" /\ name = "gpt-4o" -> { "text", "image", "audio", "multimodal" }
    [] OTHER -> { "text" }

\* ProcessAudio on the outcomes ok[1], ok[2], ok[3] of its vendor requests.
\* Claude: ErrUnsupportedRequestType.  Gemini: upload, then generate.  OpenAI:
\* transcribe; emotion analysis, whose failure leaves a placeholder note;
\* structured extraction.  The model name is not looked at.
ProcessAudioStrict(m, name, ok) ==
  IF m = "gpt4" /\ ok[1] /\ ~ok[2]
    THEN [requests |-> << "transcribe", "emotion" >>, err |-> "emotion", note |-> ""]
    ELSE [requests |-> << >>, err |-> "", note |-> ""]

ProcessAudio(m, name, ok) ==
  CASE m = "claude" ->
         [requests |-> << >>, err |-> "ErrUnsupportedRequestType", note |-> ""]
    [] m = "gemini" ->
         IF ~ok[1]
           THEN [requests |-> << "upload" >>, err |-> "upload", note |-> ""]
           ELSE [requests |-> << "upload", "generate" >>,
                 err |-> IF ok[2] THEN "" ELSE "generate", note |-> ""]
    [] m = "gpt4" ->
         IF ~ok[1]
           THEN [requests |-> << "transcribe" >>, err |-> "transcribe", note |-> ""]
           ELSE [requests |-> << "transcribe", "emotion", "extract" >>,
                 err |-> IF ok[3] THEN "" ELSE "extract",
                 note |-> IF ok[2] THEN "analysis" ELSE "No emotional analysis available."]

\* a call of ProcessAudio on a model made with a model name
AudioCall(m, name, ok) ==
  /\ lastCall.kind = ""
  /\ name \in ModelNames[m]
  /\ lastCall' = [kind |-> "ProcessAudio", model |-> m, name |-> name, ok |-> ok,
                  result |-> ProcessAudio(m, name, ok)]
  /\ UNCHANGED << modelFactories, models, providers >>
  /\ UNCHANGED << coordVars, regVars, locVars >>

NextModel ==
  \/ \E x \in TextParts : ExtractCall(x)
  \/ \E m \in ModelTypes \ { "llama" } : \E o \in { "error", "status", "empty", "text" } :
       \E x \in TextParts : JSONCall(m, o, x)
  \/ \E kind \in { "ProcessEmergencyText", "ProcessEmergencyAudio" } :
       \E first, second \in Replies : ProcessorCall(kind, first, second)
  \/ \E m \in ModelTypes \ { "llama" } : \E name \in UNION { ModelNames[t] : t \in DOMAIN ModelNames } :
       \E ok \in [1..3 -> BOOLEAN] : AudioCall(m, name, ok)

SpecModel == Init /\ [][NextModel]_vars

\* C24: ProcessTextWithJson makes one request and ends in a result, never in
\* a panic; a response is returned only with Content that parses as JSON and
\* Format "json"; a reply that is not JSON once its fences are stripped gives
\* an error that wraps ErrInvalidJSONSchema and no response.
C24_JSONModeValidation ==
  lastCall.kind = "ProcessTextWithJson" =>
    LET r == lastCall.result
    IN  /\ r.requests = 1
        /\ r.err # "panic"
        /\ r.err = "" => ValidJSON(r.resp.Content) /\ r.resp.Format = "json"
        /\ r.err # "" => r.resp.Content = << >> /\ r.resp.Format = ""
        /\ (lastCall.outcome = "text" /\ r.err # "panic"
              /\ ~ValidJSON(IF lastCall.model = "gpt4" THEN lastCall.text
                            ELSE extractJSONFromText(lastCall.text)))
             => r.err = "ErrInvalidJSONSchema"

\* C25 as stated: the fenced form of a JSON text gives what the bare text
\* gives, and a text that starts with { or [ comes back unchanged.
C25_FenceRoundTripUnchanged ==
  lastCall.kind = "extractJSONFromText" =>
    /\ (lastCall.parts.open # << >> /\ lastCall.parts.close # << >>
          /\ ValidJSON(lastCall.parts.body))
         => lastCall.result = extractJSONFromText(lastCall.parts.body)
    /\ (lastCall.text # << >> /\ lastCall.text[1] \in { "{", "[" })
         => lastCall.result = lastCall.text

\* C25: the fenced form of a JSON text, with white space around the fences
\* and inside them, gives what the bare text gives; a text that starts with
\* { or [ comes back with its trailing white space cut and nothing else
\* changed.
C25_FenceRoundTrip ==
  lastCall.kind = "extractJSONFromText" =>
    /\ (lastCall.parts.open # << >> /\ lastCall.parts.close # << >>
          /\ ValidJSON(lastCall.parts.body))
         => /\ lastCall.result = extractJSONFromText(lastCall.parts.body)
            /\ lastCall.result = lastCall.parts.body
    /\ (lastCall.text # << >> /\ lastCall.text[1] \in { "{", "[" })
         => /\ lastCall.result = TrimSpace(lastCall.text)
            /\ HasPrefix(lastCall.text, lastCall.result)

\* {"a":1} between the json fence and the closing fence with a newline on each side of it came
\* back as {"a":1}
C25_Witness ==
  /\ lastCall.kind = "extractJSONFromText"
  /\ lastCall.parts.open = << "BT", "BT", "BT", "j", "s", "o", "n" >>
  /\ lastCall.parts.in = << "\n" >>
  /\ lastCall.parts.out = << "\n" >>
  /\ lastCall.parts.close = << "BT", "BT", "BT" >>
  /\ lastCall.parts.trail = << "\n" >>
  /\ lastCall.result = << "{", "\"", "a", "\"", ":", "1", "}" >>

\* a processor call that gave a Situation
Processed ==
  /\ lastCall.kind \in { "ProcessEmergencyText", "ProcessEmergencyAudio" }
  /\ ~lastCall.result.err

\* the structured info the Situation of a processor call was made from
Info == IF lastCall.first.Format = "json" THEN lastCall.first ELSE lastCall.second

\* C26: the Situation's code is RED, YELLOW or GREEN exactly when the
\* triage_code string is "RED", "YELLOW" or "GREEN", character for character;
\* every other string, "" and "red" and "UNKNOWN" among them, gives UNKNOWN.
C26_ExactTriageCode ==
  Processed =>
    LET code == lastCall.result.situation
        tc == Info.triage_code
    IN  /\ code = CodeRed <=> tc = "RED"
        /\ code = CodeYellow <=> tc = "YELLOW"
        /\ code = CodeGreen <=> tc = "GREEN"
        /\ tc \notin { "RED", "YELLOW", "GREEN" } => code = CodeUnknown

\* the text processor made UNKNOWN of "red" in a first reply that was JSON
C26_Witness ==
  /\ Processed
  /\ lastCall.kind = "ProcessEmergencyText"
  /\ lastCall.first.Format = "json"
  /\ Info.triage_code = "red"
  /\ lastCall.result.situation = CodeUnknown

\* C27: a first reply that is not JSON is followed by exactly one
\* ProcessTextWithJson call, whose reply gives the Situation; a first reply
\* that is JSON is followed by no call; a failed first call, a failed second
\* call or a reply that does not parse ends in an error and no Situation.
C27_SecondPass ==
  lastCall.kind \in { "ProcessEmergencyText", "ProcessEmergencyAudio" } =>
    LET r == lastCall.result
        first == lastCall.first
        second == lastCall.second
        call == IF lastCall.kind = "ProcessEmergencyAudio" THEN "ProcessAudio" ELSE "ProcessText"
    IN  /\ first.err => r.calls = << call >> /\ r.err
        /\ (~first.err /\ first.Format = "json") =>
             /\ r.calls = << call >>
             /\ r.err = ~first.parses
        /\ (~first.err /\ first.Format # "json") =>
             /\ r.calls = << call, "ProcessTextWithJson" >>
             /\ r.err = (second.err \/ ~second.parses)
             /\ ~r.err => r.situation = TriageCodeOf(second.triage_code)
        /\ r.err => r.situation = NoSituation.Code

\* a prose first reply, and the second pass gave a YELLOW Situation
C27_Witness ==
  /\ lastCall.kind = "ProcessEmergencyAudio"
  /\ lastCall.first.Format = "text"
  /\ lastCall.result.calls = << "ProcessAudio", "ProcessTextWithJson" >>
  /\ ~lastCall.result.err
  /\ lastCall.result.situation = CodeYellow

\* C28: in the audio pipeline of the OpenAI model a failed emotion analysis
\* does not abort: the structured extraction still runs, with the placeholder
\* note, and alone decides the result; a failed transcription aborts with an
\* error before any later stage, and a failed extraction is an error.
C28_EmotionStageOptional ==
  (lastCall.kind = "ProcessAudio" /\ lastCall.model = "gpt4") =>
    LET r == lastCall.result
        ok == lastCall.ok
    IN  /\ ~ok[1] => r.requests = << "transcribe" >> /\ r.err # ""
        /\ ok[1] =>
             /\ r.requests = << "transcribe", "emotion", "extract" >>
             /\ (r.err = "") = ok[3]
             /\ ~ok[2] => r.note = "No emotional analysis available."

\* the emotion analysis failed and the call still returned a response
C28_Witness ==
  /\ lastCall.kind = "ProcessAudio"
  /\ lastCall.model = "gpt4"
  /\ ~lastCall.ok[2]
  /\ lastCall.result.err = ""
  /\ lastCall.result.note = "No emotional analysis available."

\* C29: ProcessAudio on a model whose SupportedRequestTypes() does not list
\* the audio request fails with ErrUnsupportedRequestType and sends nothing
\* to the vendor.
C29_CapabilityCheck ==
  (lastCall.kind = "ProcessAudio"
     /\ "audio" \notin SupportedRequestTypes(lastCall.model, lastCall.name)) =>
    /\ lastCall.result.err = "ErrUnsupportedRequestType"
    /\ lastCall.result.requests = << >>

(***************************************************************************)
(* Timeouts, in milliseconds.                                              *)
(***************************************************************************)

\* ProcessEmergency: context.WithTimeout(ctx, 30*time.Second)
CoordinatorTimeout == 30000

\* config.Timeout of every tool: API_TIMEOUT_SECONDS, 30 by default, and 30
\* seconds again in each constructor when the configuration leaves it 0
ToolTimeout(tool) == 30000

\* the longest one Execute may take within its configuration: one timeout, or
\* in the retry loop RetryAttempts of them and the sleep after each attempt
WorstCase(tool) ==
  IF Retrying(tool)
    THEN RetryAttempts * ToolTimeout(tool) + Backoff(0) + Backoff(1) + Backoff(2)
    ELSE ToolTimeout(tool)

RECURSIVE SumWorstCase(_)
SumWorstCase(list) ==
  IF list = << >> THEN 0 ELSE WorstCase(Head(list)) + SumWorstCase(Tail(list))

\* C30: whatever the policy dispatches, the coordinator's 30 seconds are
\* strictly more than the worst-case times of the dispatched tools, one after
\* the other, summed up.
C30_TimeoutComposition ==
  (pc = "loop" /\ applicableTools # << >>) =>
    CoordinatorTimeout > SumWorstCase(applicableTools)

(***************************************************************************)
(* The situation and the steps of one ProcessEmergency call.               *)
(***************************************************************************)

\* C31: while a request is processed the Situation's code is RED, YELLOW,
\* GREEN or UNKNOWN and never empty: the Situation is created UNKNOWN, every
\* write (the processor's, the classifier's, the configured fallback code
\* included) stores one of the four codes, and so does the response.
C31_TriageCodeDomain ==
  /\ pc # "idle" =>
       /\ situation.Code \in TriageCodes
       /\ incoming.Code \in TriageCodes
       /\ writes # << >>
       /\ writes[1].from = CodeUnknown
  /\ \A i \in 1..Len(writes) :
       /\ writes[i].from \in TriageCodes
       /\ writes[i].to \in TriageCodes
       /\ writes[i].to # ""
  /\ result.kind = "response" => result.Code \in TriageCodes

C31_Witness ==
  /\ pc = "dispatch"
  /\ config.FallbackCode = CodeYellow
  /\ Len(writes) = 2
  /\ writes[2].by = "classifier"
  /\ writes[2].from = CodeUnknown
  /\ writes[2].to = config.FallbackCode
  /\ situation.Code = CodeYellow
  /\ situation.Description = {}

\* the step of the call a control point belongs to: 0 Uncategorized (the
\* classification is pending), 1 Classified (the dispatch runs), 2 Dispatched
\* (the summary is pending), 3 Summarized or failed (the call has returned)
StepOf(p) ==
  CASE p = "classify" -> 0
    [] p \in {"dispatch", "loop", "attempt", "backoff", "return"} -> 1
    [] p = "summary" -> 2
    [] p = "done" -> 3
    [] OTHER -> 0

\* the Execute calls that have returned
Returned == Len(toolResponses) + Len(failures)

\* C32: within one ProcessEmergency call the steps come in the order
\* classification, dispatch, summary, return and none is entered again: the
\* classifier runs at most once and has returned before the first Execute
\* starts, an Execute starts only when the one before it has returned and
\* never twice on the same tool, and the summary generator is called once,
\* after the last Execute has returned, in every call that returns a
\* response.
C32_StepOrder ==
  /\ [](/\ Len(classifyCalls) <= 1
        /\ Len(summaryCalls) <= 1
        /\ pc \in {"idle", "classify"} =>
             classifyCalls = << >> /\ executed = << >> /\ summaryCalls = << >>
        /\ StepOf(pc) = 1 /\ pc # "idle" => summaryCalls = << >>
        /\ pc = "summary" => summaryCalls = << >>
        /\ executed # << >> => classifyCalls \in {<< >>, << "ok" >>}
        /\ \A j, k \in 1..Len(executed) : j < k => executed[j] < executed[k]
        /\ pc \in {"attempt", "backoff", "return"} =>
             /\ executed # << >>
             /\ executed[Len(executed)] = idx
             /\ Returned = Len(executed) - 1
        /\ pc \in {"dispatch", "loop", "summary", "done"} => Returned = Len(executed)
        /\ (pc = "done" /\ result.kind = "response") => Len(summaryCalls) = 1
        /\ summaryCalls # << >> => pc = "done" /\ result.kind = "response")
  /\ [][pc \notin {"idle", "done"} => StepOf(pc') >= StepOf(pc) /\ pc' # "idle"]_vars

C32_Witness ==
  /\ pc = "done"
  /\ classifyCalls = << "ok" >>
  /\ Len(executed) = 2
  /\ Len(failures) = 1
  /\ Len(toolResponses) = 1
  /\ summaryCalls = << "ok" >>
  /\ result.kind = "response"

\* the Execute calls that have returned without an error, in the order they
\* were made
Kept ==
  SelectSeq(executed,
            LAMBDA i : /\ \A k \in 1..Len(failures) : failures[k] # i
                       /\ ~(pc \in {"attempt", "backoff", "return"} /\ i = idx))

\* C34: toolResponses holds one entry for every Execute call that has
\* returned without an error and none for a failed or a running one, in the
\* order of the calls, which is the order of the tools in the registry; it is
\* never longer than the number of Execute calls, and until the call returns
\* a step only ever appends to it.
C34_ToolResponsesBookkeeping ==
  /\ [](/\ Len(toolResponses) <= Len(executed)
        /\ Len(toolResponses) = Len(Kept)
        /\ \A k \in 1..Len(Kept) :
             toolResponses[k] = ToolResponse(applicableTools[Kept[k]])
        /\ \A j, k \in 1..Len(Kept) : j < k => Kept[j] < Kept[k]
        /\ pc # "idle" => applicableTools \in {<< >>, ApplicableEntries}
        /\ result.kind = "response" => result.ToolResponses = toolResponses)
  /\ [][pc # "done" =>
          /\ HasPrefix(toolResponses', toolResponses)
          /\ Len(toolResponses') <= Len(toolResponses) + 1]_vars

C34_Witness ==
  /\ pc = "done"
  /\ situation.Code = CodeRed
  /\ Len(applicableTools) = 3
  /\ executed = << 1, 2, 3 >>
  /\ failures = << 2 >>
  /\ Len(toolResponses) = 2
  /\ toolResponses[1].ToolName = HospitalName
  /\ toolResponses[2].ToolName = HospitalName

\* the tool names a policy executes
MatchingNames(policy) ==
  { n \in {HospitalName, AmbulanceName, BookingName} : Matches(policy, n) }

\* C35: in a YELLOW or GREEN dispatch a failed Execute of the first matching
\* tool ends the dispatch: it is the only Execute of the call (a second
\* registered tool of the same name is not tried), toolResponses stays empty
\* and the call still returns a response.
C35_FirstMatchFailure ==
  /\ \A policy \in {"processYellowEmergency", "processGreenEmergency"} :
       ~ContinuesAfter(policy, TRUE) /\ ~Appends(TRUE)
  /\ (Dispatched /\ situation.Code \in {CodeYellow, CodeGreen} /\ failures # << >>) =>
       /\ Len(executed) = 1
       /\ failures = executed
       /\ executed[1] = Least(Named(MatchingNames(Policy(situation.Code))))
       /\ toolResponses = << >>
       /\ pc = "done" => result.kind = "response" /\ result.ToolResponses = << >>

C35_Witness ==
  /\ pc = "done"
  /\ situation.Code = CodeYellow
  /\ Cardinality(Named({HospitalName})) >= 2
  /\ failures = << Least(Named({HospitalName})) >>
  /\ Len(executed) = 1
  /\ result.kind = "response"
  /\ result.ToolResponses = << >>

\* C36: ProcessEmergency changes no field of the situation but Code and
\* Confidence, and these only in its classification step; it leaves the tool
\* registry as it found it on every path; the response carries the
\* situation's ID and the code the dispatch was chosen by.
C36_Frame ==
  /\ [](pc # "idle" =>
          /\ situation.ID = incoming.ID
          /\ situation.Description = incoming.Description
          /\ situation.HasLocation = incoming.HasLocation
          /\ (situation.Code # incoming.Code \/ situation.Confidence # incoming.Confidence) =>
               classifyCalls = << "ok" >>
          /\ result.kind = "response" =>
               /\ result.EmergencyID = incoming.ID
               /\ result.Code = situation.Code
               /\ applicableTools \in {<< >>, GetApplicable(tools, situation)}
               /\ (applicableTools # << >>) => Policy(result.Code) # "")
  /\ [][pc \notin {"idle", "done"} =>
          /\ tools' = tools
          /\ incoming' = incoming
          /\ situation'.ID = situation.ID
          /\ situation'.Description = situation.Description
          /\ situation'.HasLocation = situation.HasLocation
          /\ pc # "classify" => situation' = situation]_vars

C36_Witness ==
  /\ pc = "done"
  /\ result.kind = "response"
  /\ incoming.Code = CodeUnknown
  /\ incoming.HasLocation
  /\ situation.Code = CodeGreen
  /\ situation.Confidence # incoming.Confidence
  /\ result.Code = CodeGreen
  /\ result.EmergencyID = situation.ID
  /\ Len(tools) = 3
  /\ executed = << 1 >>

(***************************************************************************)
(* Termination of one ProcessEmergency call.                               *)
(***************************************************************************)
\* a step of the running call: everything but the arrival of a request, the
\* expiry of the context and the handler's return
CallStep ==
  \/ SkipClassify
  \/ ClassifyReturns
  \/ ClassifyFails
  \/ BeginDispatch
  \/ DispatchNothing
  \/ SkipTool
  \/ BeginExecute
  \/ \E o \in HTTPOutcomes : Attempt(o)
  \/ Sleep
  \/ RetriesExhausted
  \/ ExecuteReturns
  \/ EndDispatch
  \/ \E f \in BOOLEAN : Summarize(f)

\* the most steps one tool of the loop takes: the Execute call, RetryAttempts
\* attempts each with its sleep, the end of the retry loop and the return
StepsPerTool == 2 * RetryAttempts + 4

\* steps left at the head of the range loop when it stands at position i
StepsFromLoop(i) == 2 + (Len(applicableTools) - i + 1) * StepsPerTool

\* an upper bound of the steps the call still takes
StepsLeft ==
  CASE pc = "classify" -> 4 + Len(tools) * StepsPerTool
    [] pc = "dispatch" -> 3 + Len(tools) * StepsPerTool
    [] pc = "loop" -> StepsFromLoop(idx)
    [] pc = "attempt" -> StepsFromLoop(idx + 1) + 2 * (RetryAttempts - attempt) + 3
    [] pc = "backoff" -> StepsFromLoop(idx + 1) + 2 * (RetryAttempts - attempt) + 2
    [] pc = "return" -> StepsFromLoop(idx + 1) + 1
    [] pc = "summary" -> 1
    [] OTHER -> 0

NextCache ==
  \/ \E k \in CacheKeys \cup { "" } : LocationExecute(1, k)
  \/ CacheRead(1)
  \/ LastUpdateRead(1)
  \/ \E f \in Facilities \cup { "absent" } : LocationRequest(1, f)
  \/ CacheWrite(1)
  \/ LastUpdateWrite(1)
  \/ Tick

SpecCache == Init /\ [][NextCache]_vars

\* the calls that fetched the list of key k and stored it
Fetches(k) == { c \in lcalls : c.key = k /\ ~c.cached /\ ~c.err }

\* C33: Execute returns the cached list of its key exactly when the key has
\* an entry and less than cacheTTL has passed since the tool's one
\* lastUpdate, and sends a request otherwise; every fetch, whatever its key,
\* sets lastUpdate to the time of the fetch and stores the entry of its own
\* key only.
C33_GlobalTimestamp ==
  /\ [](\A c \in lcalls : c.cached => ~c.err /\ c.facilities \in Facilities)
  /\ [][(lpc[1] = "cacheRead" /\ lpc'[1] # "cacheRead") =>
          lpc'[1] = IF cache[lkey[1]] # "absent" THEN "tsRead" ELSE "request"]_vars
  /\ [][(lpc[1] = "tsRead" /\ lpc'[1] # "tsRead") =>
          IF now - lastUpdate < CacheTTL
            THEN /\ lpc'[1] = "idle"
                 /\ lcalls' = lcalls \cup { [key |-> lkey[1], facilities |-> cache[lkey[1]],
                                             cached |-> TRUE, err |-> FALSE, at |-> now] }
                 /\ cache' = cache
                 /\ lastUpdate' = lastUpdate
            ELSE /\ lpc'[1] = "request"
                 /\ lcalls' = lcalls]_vars
  /\ [][lastUpdate' # lastUpdate =>
          /\ lpc[1] = "tsWrite"
          /\ lastUpdate' = now
          /\ lcalls' = lcalls \cup { [key |-> lkey[1], facilities |-> cache[lkey[1]],
                                      cached |-> FALSE, err |-> FALSE, at |-> now] }]_vars
  /\ [][cache' # cache =>
          /\ lpc[1] = "cacheWrite"
          /\ \A k \in CacheKeys \ { lkey[1] } : cache'[k] = cache[k]]_vars

\* the list of k1 was fetched more than cacheTTL before it is served from the
\* cache, a fetch for k2 having set lastUpdate in between
C33_Witness ==
  /\ lpc[1] = "idle"
  /\ \E c \in lcalls :
       /\ c.key = "k1"
       /\ c.cached
       /\ c.at = now
       /\ Fetches("k1") # {}
       /\ \A w \in Fetches("k1") : c.at - w.at > CacheTTL
       /\ \E w \in Fetches("k2") : w.at = lastUpdate /\ c.at - w.at < CacheTTL

(***************************************************************************)
(* Requests handled side by side: each handler goroutine has its processor *)
(* build a situation and calls ProcessEmergency on the one coordinator,    *)
(* whose registry and classifier the calls share.  An Execute call is one  *)
(* step here, with the outcome of its last attempt.                        *)
(***************************************************************************)

\* the span of the clock
MaxClock == 2

TicksPerMilli == 2

\* "emergency-" + time.Now().Format("20060102-150405.000"): the time of day
\* cut to the millisecond
generateUUID(t) == << "emergency-", t \div TicksPerMilli >>

NewEmergencySituation(description, t) ==
  [ID |-> generateUUID(t), Description |-> description, Code |-> CodeUnknown,
   Confidence |-> << 0, 1 >>, HasLocation |-> FALSE]

\* what the processors hand to the coordinator in these requests
ConcurrentRequests ==
  { r \in Requests :
      /\ r.Confidence \in { << 0, 1 >>, << 1, 1 >> }
      /\ r.Description \in { {}, {"not breathing", "heart attack", "stroke",
                                 "unconscious", "choking"} } }

\* everything but the requests of the handlers
serverVars == << tools, classifier, config, pc, reqVars, execVars, regVars, locVars, aiVars >>

\* the response of an Execute call, with the call that made it
Produced(h, tool) == [by |-> h, response |-> ToolResponse(tool)]

\* the processor builds the situation (NewEmergencySituation, SetTriageCode,
\* the location) and the handler calls ProcessEmergency with it
HandleTextEmergency(h, r) ==
  /\ request[h].pc = "idle"
  /\ tools # << >>
  /\ LET created == NewEmergencySituation(r.Description, clock)
         located == [created EXCEPT !.HasLocation = r.HasLocation]
     IN  request' = [request EXCEPT
                       ![h] = NewRequest(SetTriageCode(located, r.Code, r.Confidence))]
  /\ UNCHANGED << clock, serverVars >>

\* if situation.Code == CodeUnknown: Classify and SetTriageCode
Classification(h) ==
  /\ request[h].pc = "classify"
  /\ LET s == request[h].situation
         r == Classify(classifier, s)
     IN  request' = [request EXCEPT
                       ![h].pc = "dispatch",
                       ![h].situation = IF NeedsClassification(s)
                                          THEN SetTriageCode(s, r.code, r.confidence)
                                          ELSE s]
  /\ UNCHANGED << clock, serverVars >>

\* the switch on situation.Code and the GetApplicable call of the policy
Dispatch(h) ==
  /\ request[h].pc = "dispatch"
  /\ LET s == request[h].situation
     IN  request' = IF Policy(s.Code) # ""
                      THEN [request EXCEPT ![h].pc = "loop",
                                           ![h].applicableTools = GetApplicable(tools, s),
                                           ![h].idx = 1]
                      ELSE [request EXCEPT ![h].pc = "summary"]
  /\ UNCHANGED << clock, serverVars >>

\* the range loop passes a tool whose name does not match
DispatchSkip(h) ==
  /\ request[h].pc = "loop"
  /\ request[h].idx <= Len(request[h].applicableTools)
  /\ ~Matches(Policy(request[h].situation.Code),
              Name(request[h].applicableTools[request[h].idx]))
  /\ request' = [request EXCEPT ![h].idx = @ + 1]
  /\ UNCHANGED << clock, serverVars >>

\* an Execute whose response is appended to a list all the calls share
DispatchExecuteShared(h, o) ==
  /\ request[h].pc = "loop"
  /\ request[h].idx <= Len(request[h].applicableTools)
  /\ LET c == request[h]
         tool == c.applicableTools[c.idx]
         policy == Policy(c.situation.Code)
         failed == ExecuteFails(tool, c.situation, o.err,
                                [status |-> o.status, bodyOk |-> o.bodyOk])
     IN  /\ Matches(policy, Name(tool))
         /\ request' =
              [g \in Handlers |->
                 LET appended == IF Appends(failed) /\ request[g].pc # "idle"
                                   THEN Append(request[g].toolResponses, Produced(h, tool))
                                   ELSE IF request[g].pc # "idle"
                                          THEN request[g].toolResponses ELSE << >>
                 IN  IF g = h
                       THEN [c EXCEPT
                               !.executed = Append(@, c.idx),
                               !.failures = IF failed THEN Append(@, c.idx) ELSE @,
                               !.toolResponses = appended,
                               !.idx = IF ContinuesAfter(policy, failed) THEN @ + 1 ELSE @,
                               !.pc = IF ContinuesAfter(policy, failed) THEN "loop" ELSE "summary"]
                       ELSE IF request[g].pc = "idle" THEN request[g]
                       ELSE [request[g] EXCEPT !.toolResponses = appended]]
  /\ UNCHANGED << clock, serverVars >>

\* tool.Execute(ctx, situation) on a matching tool, and what the loop does
\* with what it returns
DispatchExecute(h, o) ==
  /\ request[h].pc = "loop"
  /\ request[h].idx <= Len(request[h].applicableTools)
  /\ LET c == request[h]
         tool == c.applicableTools[c.idx]
         policy == Policy(c.situation.Code)
         failed == ExecuteFails(tool, c.situation, o.err,
                                [status |-> o.status, bodyOk |-> o.bodyOk])
     IN  /\ Matches(policy, Name(tool))
         /\ request' =
              [request EXCEPT
                 ![h] = [c EXCEPT
                           !.executed = Append(@, c.idx),
                           !.failures = IF failed THEN Append(@, c.idx) ELSE @,
                           !.toolResponses = IF Appends(failed)
                                               THEN Append(@, Produced(h, tool)) ELSE @,
                           !.idx = IF ContinuesAfter(policy, failed) THEN @ + 1 ELSE @,
                           !.pc = IF ContinuesAfter(policy, failed) THEN "loop" ELSE "summary"]]
  /\ UNCHANGED << clock, serverVars >>

\* the range loop is over
DispatchEnd(h) ==
  /\ request[h].pc = "loop"
  /\ request[h].idx > Len(request[h].applicableTools)
  /\ request' = [request EXCEPT ![h].pc = "summary"]
  /\ UNCHANGED << clock, serverVars >>

\* the summary and the EmergencyResponse
Respond(h, summaryFails) ==
  /\ request[h].pc = "summary"
  /\ LET c == request[h]
     IN  request' =
           [request EXCEPT
              ![h].pc = "done",
              ![h].result = [kind |-> "response",
                             EmergencyID |-> c.situation.ID,
                             Code |-> c.situation.Code,
                             Summary |-> IF summaryFails THEN FallbackSummary(c.situation)
                                                         ELSE GenerateSummary(c.situation),
                             ToolResponses |-> c.toolResponses]]
  /\ UNCHANGED << clock, serverVars >>

\* the handler has written the response
HandlerReturns(h) ==
  /\ request[h].pc = "done"
  /\ request' = [request EXCEPT ![h] = NoRequest]
  /\ UNCHANGED << clock, serverVars >>

\* half a millisecond passes
ClockTick ==
  /\ clock < MaxClock
  /\ clock' = clock + 1
  /\ UNCHANGED << request, serverVars >>

NextRequests ==
  \/ \E h \in {"hospital", "hospital_p"}, a \in {"ambulance", "ambulance_r"} :
       SetupComponents(h, a)
  \/ \E h \in Handlers : \E r \in ConcurrentRequests : HandleTextEmergency(h, r)
  \/ \E h \in Handlers : Classification(h)
  \/ \E h \in Handlers : Dispatch(h)
  \/ \E h \in Handlers : DispatchSkip(h)
  \/ \E h \in Handlers : \E o \in HTTPOutcomes : DispatchExecute(h, o)
  \/ \E h \in Handlers : DispatchEnd(h)
  \/ \E h \in Handlers : \E f \in BOOLEAN : Respond(h, f)
  \/ \E h \in Handlers : HandlerReturns(h)
  \/ ClockTick

SpecRequests == Init /\ [][NextRequests]_vars

\* the positions of the applicable list on which a call of its own, with no
\* other call around, calls Execute (C1, C3, C4)
AloneExecuted(registry, s) ==
  LET applicable == SelectSeq(registry, LAMBDA t : IsApplicable(t, s))
      matching == { i \in 1..Len(applicable) :
                      Matches(Policy(s.Code), Name(applicable[i])) }
  IN  IF Policy(s.Code) = "processRedEmergency" THEN matching
      ELSE IF matching = {} THEN {} ELSE { Least(matching) }

\* C37: with two ProcessEmergency calls running side by side on one
\* registry, the ToolResponses of a call hold the responses of its own
\* Execute calls that succeeded and nothing else, and the tools a call has
\* executed when its dispatch is over are those it executes when it runs
\* alone.
C37_RequestIsolation ==
  \A h \in { g \in Handlers : request[g].pc # "idle" } :
    LET c == request[h]
        kept == SelectSeq(c.executed,
                          LAMBDA i : \A k \in 1..Len(c.failures) : c.failures[k] # i)
    IN  /\ Len(c.toolResponses) = Len(kept)
        /\ \A k \in 1..Len(kept) :
             c.toolResponses[k] = Produced(h, c.applicableTools[kept[k]])
        /\ c.pc \in {"loop", "summary", "done"} =>
             c.applicableTools \in
               { << >>, SelectSeq(tools, LAMBDA t : IsApplicable(t, c.situation)) }
        /\ c.pc \in {"summary", "done"} =>
             { c.executed[k] : k \in 1..Len(c.executed) } = AloneExecuted(tools, c.situation)
        /\ c.pc = "done" => c.result.ToolResponses = c.toolResponses

C37_Witness ==
  /\ request[1].pc = "loop"
  /\ request[2].pc = "loop"
  /\ request[1].situation.Code = CodeRed
  /\ request[2].situation.Code = CodeRed
  /\ request[1].situation.HasLocation
  /\ ~request[2].situation.HasLocation
  /\ Len(request[1].executed) = 1
  /\ Len(request[2].executed) = 1
  /\ request[1].toolResponses = << Produced(1, "hospital") >>
  /\ request[2].failures = << 1 >>

\* C39: the situations of two requests in progress have different IDs.
C39_UniqueIDs ==
  \A g, h \in Handlers :
    (g # h /\ request[g].pc # "idle" /\ request[h].pc # "idle") =>
      request[g].situation.ID # request[h].situation.ID

====
